---- MODULE Spec2Model ----
(***************************************************************************)
(* Symbol interning, symbol resolution and live-object tracing of          *)
(* src/input-files.cc.                                                     *)
(*                                                                         *)
(* Strings are sequences of one-character strings.  An ELF symbol table    *)
(* is a function over 0..n-1, so that indices are the indices of the code. *)
(***************************************************************************)
EXTENDS Integers, Sequences, FiniteSets, TLC

VARIABLES
  file,          \* the input files: loaded file name -> InputFile (fixed by Init)
  is_reachable,  \* InputFile::is_reachable, per file
  symtab,        \* the interned symbols of the files: key -> Symbol
  mu,            \* Symbol::mu, per key: the file whose thread holds it, or Null
  pc,            \* per file: the position of the task that runs for the file
  idx,           \* per file: the loop variable i of the running method
  arch,          \* per file: the is_in_archive arguments of its last get_rank calls
  phase,         \* the pass the driver is in
  round,         \* the number of resolution passes started
  fed,           \* per file: the number of feeder calls made for it
  stable,        \* the last pass changed no reachability flag
  ctx,           \* the configuration record (ctx.arg and ctx.default_version)
  symbol_map,    \* interner: ctx.symbol_map, key -> address of its Symbol
  heap,          \* interner: address -> the Symbol stored there
  ipc,           \* interner: per caller, the position inside get_symbol
  iarg,          \* interner: per caller, the arguments of the running call
  iret,          \* interner: every (key, address) a get_symbol call has returned
  ncalls,        \* interner: the number of get_symbol calls started
  rk,            \* rank: the pair of candidates under comparison and their ranks
  mv,            \* visibility: one symbol's visibility and the merge_visibility calls
  objfile,       \* object parsing: one object file inside ObjectFile::parse
  sofile,        \* shared-object parsing: one file inside SharedFile::parse
  pieces,        \* section pieces: the files inside reattach_section_pieces
  crel,          \* CREL: a relocation table, its encoding and the decoder's state
  mapped,        \* file header: a mapped file inside the InputFile constructor
  isecs,         \* sections: the objects of a link inside initialize_sections
  ehframe,       \* .eh_frame: one object file inside parse_ehframe
  symout         \* symbol table output: the sizing and the emission of the files

vars == <<file, is_reachable, symtab, mu, pc, idx, arch, phase, round, fed,
          stable, ctx, symbol_map, heap, ipc, iarg, iret, ncalls, rk, mv,
          objfile, sofile, pieces, crel, mapped, isecs, ehframe, symout>>

resolveVars == <<file, is_reachable, symtab, mu, pc, idx, arch, phase, round,
                 fed, stable, ctx>>
internVars == <<symbol_map, heap, ipc, iarg, iret, ncalls>>
\* what resolution and tracing leave alone
lateVars == <<isecs, ehframe, symout>>
parseVars == <<objfile, sofile, pieces, crel, mapped, lateVars>>
idleVars == <<symbol_map, heap, ipc, iarg, iret, ncalls, rk, mv, parseVars>>

----------------------------------------------------------------------------
(* Bounds *)

\* resolution passes the driver runs (each followed by a tracing pass)
MaxRounds == 2
\* get_symbol calls of one run of the interner
MaxCalls == 4
\* the feeder calls counted per file (the count saturates there)
FedCap == 2
\* merge_visibility calls of one thread on the symbol
MaxMerges == 2
\* symbol table entries after the null entry of a parsed object file
MaxSyms == 2
\* dynamic symbols after the null entry of a parsed shared object
MaxDynsyms == 2
\* section headers a mapped file announces
MaxSections == 3
\* relocations of a CREL table
MaxRels == 2
\* relocations of the allocated section of a file with section pieces
MaxPieceRels == 2
\* section headers of an object file inside initialize_sections
MaxIsecs == 3
\* records of the first .eh_frame section of an object file
MaxRecords == 3
\* symbols after the null symbol of a file whose symbol table is written
MaxOutSyms == 2

----------------------------------------------------------------------------
(* ELF constants *)

SHN_UNDEF == 0
SHN_ABS == 65521
SHN_COMMON == 65522
STB_GLOBAL == 1
STB_WEAK == 2
STV_DEFAULT == 0
STV_INTERNAL == 1
STV_HIDDEN == 2
STV_PROTECTED == 3
VER_NDX_LOCAL == 0
VER_NDX_GLOBAL == 1
VER_NDX_UNSPECIFIED == 65535
VERSYM_HIDDEN == 32768

Null == "null"

----------------------------------------------------------------------------
(* Strings *)

S_f == <<"f">>
S_g == <<"g">>
S_v == <<"v">>
S_at == <<"@">>
S_fv == <<"f", "@", "v">>

\* std::string_view::find(c): the first position of c (from 0), or -1 (npos)
Find(s, c) ==
  IF \E p \in 1..Len(s) : s[p] = c
  THEN (CHOOSE p \in 1..Len(s) : s[p] = c /\ \A q \in 1..(p - 1) : s[q] # c) - 1
  ELSE -1

\* std::string_view::substr(0, n), n = -1 standing for npos
Prefix(s, n) == IF n < 0 \/ n >= Len(s) THEN s ELSE SubSeq(s, 1, n)

\* the display name get_symbol(ctx, key) derives from the key
NameOfKey(key) == Prefix(key, Find(key, "@"))

----------------------------------------------------------------------------
(* ElfSym predicates *)

is_undef(esym) == esym.st_shndx = SHN_UNDEF
is_abs(esym) == esym.st_shndx = SHN_ABS
is_common(esym) == esym.st_shndx = SHN_COMMON
is_weak(esym) == esym.st_bind = STB_WEAK

----------------------------------------------------------------------------
(* Rank of a candidate definition *)

\* 1 << 24: the class of a rank sits above the file priority
RankShift == 16777216

\* mutant: the binding is tested before the DSO/archive test
get_sym_rank_WeakFirst(f, esym, is_in_archive) ==
  IF is_common(esym)
  THEN (IF is_in_archive THEN 6 ELSE 5)
  ELSE IF esym.st_bind = STB_WEAK
       THEN 2
       ELSE IF f.is_dso \/ is_in_archive THEN 3 ELSE 1

\* the lambda get_sym_rank of get_rank(file, esym, is_in_archive); f is the
\* InputFile record
get_sym_rank(f, esym, is_in_archive) ==
  IF is_common(esym)
  THEN (IF is_in_archive THEN 6 ELSE 5)
  ELSE IF f.is_dso \/ is_in_archive
       THEN (IF esym.st_bind = STB_WEAK THEN 4 ELSE 3)
       ELSE IF esym.st_bind = STB_WEAK THEN 2 ELSE 1

\* get_rank(file, esym, is_in_archive).  The sum is a u64 in the code; the
\* priorities of the model keep it far below 2^31, so no wrap-around is modelled.
get_rank(f, esym, is_in_archive) ==
  get_sym_rank(f, esym, is_in_archive) * RankShift + f.priority

\* the rank of a symbol that no file defines: 7 << 24
UnclaimedRank == 7 * RankShift

\* mutant: the incumbent's flag is passed without the negation
IncInArchive_NotNegated(reach, sym) == reach[sym.file]

\* the is_in_archive argument get_rank(sym) passes for the incumbent
IncInArchive(reach, sym) == ~reach[sym.file]

\* sym.esym(): the entry sym_idx of the file that defines the symbol.  The
\* index is one of the file's whenever the symbol is read under its mutex; a
\* read outside the table is given the null entry
EsymOf(files, sym) ==
  IF sym.sym_idx \in DOMAIN files[sym.file].elf_syms
  THEN files[sym.file].elf_syms[sym.sym_idx]
  ELSE [st_name |-> <<>>, st_bind |-> 0, st_shndx |-> SHN_UNDEF, st_value |-> 0,
        st_visibility |-> STV_DEFAULT]

\* get_rank(sym): the rank of the current definition of a symbol
SymRank(files, reach, sym) ==
  IF sym.file = Null
  THEN UnclaimedRank
  ELSE get_rank(files[sym.file], EsymOf(files, sym), IncInArchive(reach, sym))

\* the is_in_archive argument ObjectFile::resolve_symbols passes for itself
ObjInArchive(reach, f) == ~reach[f]

\* the is_in_archive argument SharedFile::resolve_symbols passes for itself
DsoInArchive(reach, f) == FALSE

\* the rank of entry i of file f as resolve_symbols of f computes it
CandInArchive(files, reach, f) ==
  IF files[f].is_dso THEN DsoInArchive(reach, f) ELSE ObjInArchive(reach, f)

CandRank(files, reach, f, i) ==
  get_rank(files[f], files[f].elf_syms[i], CandInArchive(files, reach, f))

\* mutant: a candidate of equal rank replaces the incumbent too
Outranks_OrEqual(candidate, incumbent) == candidate <= incumbent

\* the comparison of resolve_symbols: the candidate replaces the incumbent
Outranks(candidate, incumbent) == candidate < incumbent

----------------------------------------------------------------------------
(* Symbols *)

NoOrigin == [kind |-> "none", file |-> Null, shndx |-> 0, key |-> <<>>]
\* Symbol::set_input_section(isec); a null isec clears the origin word
SectionOrigin(f, shndx) ==
  IF shndx = 0 THEN NoOrigin
  ELSE [kind |-> "isec", file |-> f, shndx |-> shndx, key |-> <<>>]
\* (uintptr_t)&sym
SymbolOrigin(key) == [kind |-> "sym", file |-> Null, shndx |-> 0, key |-> key]

\* Symbol<E>(name, demangle): a freshly constructed symbol
NewSymbol(name) ==
  [name |-> name, file |-> Null, origin |-> NoOrigin, value |-> 0,
   sym_idx |-> -1, ver_idx |-> VER_NDX_UNSPECIFIED, is_weak |-> FALSE,
   is_versioned_default |-> FALSE, visibility |-> STV_DEFAULT,
   skip_dso |-> FALSE]

\* no symbol (a null Symbol pointer in symbols2)
NullSym == <<>>

----------------------------------------------------------------------------
(* Files *)

\* a sequence as a function over 0..n-1
Z(seq) == [i \in 0..(Len(seq) - 1) |-> seq[i + 1]]
Size(fn) == Cardinality(DOMAIN fn)

Esym(name, bind, shndx, value, vis) ==
  [st_name |-> name, st_bind |-> bind, st_shndx |-> shndx, st_value |-> value,
   st_visibility |-> vis]

\* ObjectFile::initialize_symbols, the key and the display name of a global
\* entry: the version suffix after the atsign
StartsWith(s, p) == Len(s) >= Len(p) /\ SubSeq(s, 1, Len(p)) = p
Suffix(s, pos) == SubSeq(s, pos + 1, Len(s))

ObjKeyName(str) ==
  LET pos == Find(str, "@") IN
  IF pos = -1 THEN [key |-> str, name |-> str, has_symver |-> FALSE]
  ELSE LET ver == Suffix(str, pos)
           name == Prefix(str, pos) IN
       IF ver # <<"@">> /\ ver # <<"@", "@">>
       THEN [key |-> IF StartsWith(ver, <<"@", "@">>) THEN name ELSE str,
             name |-> name, has_symver |-> TRUE]
       ELSE [key |-> str, name |-> name, has_symver |-> FALSE]

\* an object file after ObjectFile::parse: entry 0 is the null symbol, the
\* globals follow; symbols[i] is the key of the interned symbol of entry i
ObjectFile(prio, globals, sections) ==
  LET syms == <<Esym(<<>>, 0, SHN_UNDEF, 0, STV_DEFAULT)>> \o globals IN
  [is_dso |-> FALSE, priority |-> prio, first_global |-> 1,
   elf_syms |-> Z(syms),
   symbols |-> [i \in 0..(Len(syms) - 1) |->
                  IF i = 0 THEN NullSym ELSE ObjKeyName(syms[i + 1].st_name).key],
   symbols2 |-> [i \in 0..(Len(syms) - 1) |-> NullSym],
   versyms |-> [i \in 0..(Len(syms) - 1) |-> VER_NDX_GLOBAL],
   sections |-> sections, exclude_libs |-> FALSE]

\* the bits of a versym entry
VersymHidden(v) == (v \div VERSYM_HIDDEN) % 2 = 1
VersymIndex(v) == v % VERSYM_HIDDEN

\* mutant: an undefined symbol keeps the version of its versym entry
DsoVer_OfUndefined(vers, esym, i) ==
  IF Size(vers) = 0 THEN VER_NDX_GLOBAL ELSE VersymIndex(vers[i])

\* SharedFile::parse, one dynamic symbol: its version index
DsoVer(vers, esym, i) ==
  IF Size(vers) = 0 \/ is_undef(esym) THEN VER_NDX_GLOBAL ELSE VersymIndex(vers[i])

\* the key of get_versioned_sym: name@VERSION
VersionedKey(name, version) == name \o <<"@">> \o version

\* mutant: a versioned non-default symbol gets the bare name as its alias
DsoSymbols_HiddenAliased(vers, version_strings, esym, i) ==
  LET ver == DsoVer(vers, esym, i)
      name == esym.st_name IN
  IF Size(vers) = 0 \/ ver = VER_NDX_GLOBAL
  THEN <<name, NullSym>>
  ELSE IF VersymHidden(vers[i])
       THEN <<VersionedKey(name, version_strings[ver]), name>>
       ELSE <<name, VersionedKey(name, version_strings[ver])>>

\* SharedFile::parse, one kept dynamic symbol: its symbol and its alias,
\* <<symbols entry, symbols2 entry>>
DsoSymbols(vers, version_strings, esym, i) ==
  LET ver == DsoVer(vers, esym, i)
      name == esym.st_name IN
  IF Size(vers) = 0 \/ ver = VER_NDX_GLOBAL
  THEN <<name, NullSym>>
  ELSE IF VersymHidden(vers[i])
       THEN <<VersionedKey(name, version_strings[ver]), NullSym>>
       ELSE <<name, VersionedKey(name, version_strings[ver])>>

\* SharedFile::parse, the loop over the dynamic symbols from sh_info on
RECURSIVE DsoParseFrom(_, _, _, _, _)
DsoParseFrom(esyms, vers, version_strings, i, acc) ==
  IF i >= Size(esyms) THEN acc
  ELSE LET ver == DsoVer(vers, esyms[i], i) IN
       IF ver = VER_NDX_LOCAL
       THEN DsoParseFrom(esyms, vers, version_strings, i + 1, acc)
       ELSE LET ss == DsoSymbols(vers, version_strings, esyms[i], i) IN
            DsoParseFrom(esyms, vers, version_strings, i + 1,
              [elf_syms |-> Append(acc.elf_syms, esyms[i]),
               versyms |-> Append(acc.versyms, ver),
               symbols |-> Append(acc.symbols, ss[1]),
               symbols2 |-> Append(acc.symbols2, ss[2])])

\* a shared object after SharedFile::parse of its dynamic symbol table esyms
\* (a function over 0..n-1), its versym table vers (empty if there is none)
\* and its version strings
SharedFile(prio, esyms, sh_info, vers, version_strings) ==
  LET p == DsoParseFrom(esyms, vers, version_strings, sh_info,
             [elf_syms |-> <<>>, versyms |-> <<>>, symbols |-> <<>>,
              symbols2 |-> <<>>]) IN
  [is_dso |-> TRUE, priority |-> prio, first_global |-> 0,
   elf_syms |-> Z(p.elf_syms), symbols |-> Z(p.symbols),
   symbols2 |-> Z(p.symbols2), versyms |-> Z(p.versyms),
   sections |-> <<>>, exclude_libs |-> FALSE]

\* the keys the files intern, and the symbol table after all files are parsed
Globals(f) == f.first_global..(Size(f.elf_syms) - 1)

KeysOf(files) ==
  (UNION { { files[f].symbols[i] : i \in Globals(files[f]) }
           \cup { files[f].symbols2[i] : i \in Globals(files[f]) }
           : f \in DOMAIN files }) \ {NullSym}

----------------------------------------------------------------------------
(* ObjectFile::resolve_symbols and SharedFile::resolve_symbols *)

\* mutant: a definition is taken whatever has become of its section
SectionAlive_AnySection(f, esym) == TRUE

\* get_section(esym) of an object: the section is kept and alive
SectionAlive(f, esym) == f.sections[esym.st_shndx] = "alive"

\* the entries resolve_symbols does not skip (the two `continue`s)
ObjConsiders(f, i) ==
  LET esym == f.elf_syms[i] IN
  /\ ~is_undef(esym)
  /\ (~is_abs(esym) /\ ~is_common(esym)) => SectionAlive(f, esym)

DsoConsiders(syms, f, i) ==
  /\ ~is_undef(f.elf_syms[i])
  /\ ~syms[f.symbols[i]].skip_dso

Considers(files, syms, f, i) ==
  IF files[f].is_dso THEN DsoConsiders(syms, files[f], i)
  ELSE ObjConsiders(files[f], i)

\* the first entry from index `from` on that the loop does not skip, or the
\* size of the symbol table
NextEntry(files, syms, f, from) ==
  LET n == Size(files[f].elf_syms)
      c == { i \in from..(n - 1) : Considers(files, syms, f, i) } IN
  IF c = {} THEN n ELSE CHOOSE i \in c : \A j \in c : i <= j

\* mutant: the lock is taken without waiting for its holder
MutexFree_Always(m, key) == TRUE

\* std::scoped_lock lock(sym.mu) can be taken
MutexFree(m, key) == m[key] = Null

\* the isec of an entry: null (0) for an absolute or a common entry
IsecOf(esym) == IF is_abs(esym) \/ is_common(esym) THEN 0 ELSE esym.st_shndx

\* the assignments of ObjectFile::resolve_symbols, in two parts
ObjWriteA(sym, f, esym) ==
  [sym EXCEPT !.file = f, !.origin = SectionOrigin(f, IsecOf(esym)),
              !.value = esym.st_value]
ObjWriteB(sym, i, esym, default_version) ==
  [sym EXCEPT !.sym_idx = i, !.ver_idx = default_version,
              !.is_weak = is_weak(esym), !.is_versioned_default = FALSE]

\* the assignments of SharedFile::resolve_symbols to sym, in two parts
DsoWriteA(sym, f, esym) ==
  [sym EXCEPT !.file = f, !.origin = NoOrigin, !.value = esym.st_value]
DsoWriteB(sym, i, versym) ==
  [sym EXCEPT !.sym_idx = i, !.ver_idx = versym, !.is_weak = TRUE,
              !.is_versioned_default = FALSE]

\* mutant: the alias is not given its origin
AliasWrite_NoOrigin(sym2, f, i, key) ==
  [sym2 EXCEPT !.file = f, !.sym_idx = i, !.is_versioned_default = TRUE]

\* mutant: the alias is marked weak like the base symbol
AliasWrite_Weak(sym2, f, i, key) ==
  [sym2 EXCEPT !.file = f, !.origin = SymbolOrigin(key), !.sym_idx = i,
               !.is_weak = TRUE, !.is_versioned_default = TRUE]

\* the assignments of SharedFile::resolve_symbols to the alias sym2
AliasWrite(sym2, f, i, key) ==
  [sym2 EXCEPT !.file = f, !.origin = SymbolOrigin(key), !.sym_idx = i,
               !.is_versioned_default = TRUE]

\* the alias of entry i that the code locks: non-null and not sym itself
HasAlias(f, i) == f.symbols2[i] # NullSym /\ f.symbols2[i] # f.symbols[i]

\* the position of the task of f when resolve_symbols goes on from entry `from`
ResolvePc(files, syms, f, from) ==
  IF NextEntry(files, syms, f, from) >= Size(files[f].elf_syms) THEN "done"
  ELSE "lock"

\* the arguments of the two get_rank calls of one comparison
Comparison(files, reach, f, sym) ==
  [valid |-> TRUE, cand |-> CandInArchive(files, reach, f),
   inc_file |-> sym.file,
   inc |-> IF sym.file = Null THEN FALSE ELSE IncInArchive(reach, sym)]
NoComparison == [valid |-> FALSE, cand |-> FALSE, inc_file |-> Null, inc |-> FALSE]

\* the end of one iteration: the locks are released, the loop goes on
NextIteration(f, held) ==
  /\ mu' = [k \in DOMAIN mu |-> IF k \in held THEN Null ELSE mu[k]]
  /\ idx' = [idx EXCEPT ![f] = NextEntry(file, symtab, f, idx[f] + 1)]
  /\ pc' = [pc EXCEPT ![f] = ResolvePc(file, symtab, f, idx[f] + 1)]

\* lock sym.mu and compare the ranks
Lock(f) ==
  LET i == idx[f]
      key == file[f].symbols[i]
      wins == Outranks(CandRank(file, is_reachable, f, i),
                       SymRank(file, is_reachable, symtab[key])) IN
  /\ phase = "resolve" /\ pc[f] = "lock"
  /\ MutexFree(mu, key)
  /\ arch' = [arch EXCEPT ![f] = Comparison(file, is_reachable, f, symtab[key])]
  /\ IF wins
     THEN /\ mu' = [mu EXCEPT ![key] = f]
          /\ pc' = [pc EXCEPT ![f] = "writeA"]
          /\ idx' = idx
     ELSE IF file[f].is_dso /\ HasAlias(file[f], i)
     THEN /\ mu' = [mu EXCEPT ![key] = f]
          /\ pc' = [pc EXCEPT ![f] = "lock2"]
          /\ idx' = idx
     ELSE NextIteration(f, {key})
  /\ UNCHANGED <<idleVars, file, is_reachable, symtab, phase, round, fed, stable, ctx>>

\* sym.file, sym.origin (set_input_section) and sym.value
WriteA(f) ==
  LET i == idx[f]
      key == file[f].symbols[i]
      esym == file[f].elf_syms[i] IN
  /\ phase = "resolve" /\ pc[f] = "writeA"
  /\ symtab' = [symtab EXCEPT ![key] =
       IF file[f].is_dso THEN DsoWriteA(@, f, esym) ELSE ObjWriteA(@, f, esym)]
  /\ pc' = [pc EXCEPT ![f] = "writeB"]
  /\ UNCHANGED <<idleVars, file, is_reachable, mu, idx, arch, phase, round, fed, stable, ctx>>

\* sym.sym_idx, sym.ver_idx, sym.is_weak and sym.is_versioned_default; an
\* object, and a DSO entry without alias, then end the iteration
WriteB(f) ==
  LET i == idx[f]
      key == file[f].symbols[i]
      esym == file[f].elf_syms[i] IN
  /\ phase = "resolve" /\ pc[f] = "writeB"
  /\ symtab' = [symtab EXCEPT ![key] =
       IF file[f].is_dso THEN DsoWriteB(@, i, file[f].versyms[i])
       ELSE ObjWriteB(@, i, esym, ctx.default_version)]
  /\ IF file[f].is_dso /\ HasAlias(file[f], i)
     THEN /\ pc' = [pc EXCEPT ![f] = "lock2"]
          /\ UNCHANGED <<mu, idx>>
     ELSE NextIteration(f, {key})
  /\ UNCHANGED <<idleVars, file, is_reachable, arch, phase, round, fed, stable, ctx>>

\* lock sym2->mu, with sym.mu held, and compare the ranks
Lock2(f) ==
  LET i == idx[f]
      key == file[f].symbols[i]
      key2 == file[f].symbols2[i]
      wins == Outranks(CandRank(file, is_reachable, f, i),
                       SymRank(file, is_reachable, symtab[key2])) IN
  /\ phase = "resolve" /\ pc[f] = "lock2"
  /\ MutexFree(mu, key2)
  /\ arch' = [arch EXCEPT ![f] = Comparison(file, is_reachable, f, symtab[key2])]
  /\ IF wins
     THEN /\ mu' = [mu EXCEPT ![key2] = f]
          /\ pc' = [pc EXCEPT ![f] = "writeAlias"]
          /\ idx' = idx
     ELSE NextIteration(f, {key})
  /\ UNCHANGED <<idleVars, file, is_reachable, symtab, phase, round, fed, stable, ctx>>

\* the four assignments to sym2; both locks are released
WriteAlias(f) ==
  LET i == idx[f]
      key == file[f].symbols[i]
      key2 == file[f].symbols2[i] IN
  /\ phase = "resolve" /\ pc[f] = "writeAlias"
  /\ symtab' = [symtab EXCEPT ![key2] = AliasWrite(@, f, i, key)]
  /\ NextIteration(f, {key, key2})
  /\ UNCHANGED <<idleVars, file, is_reachable, arch, phase, round, fed, stable, ctx>>

----------------------------------------------------------------------------
(* mark_live_objects *)

\* the lambda `priority` of merge_visibility
VisPriority(visibility) ==
  CASE visibility = STV_HIDDEN -> 1
    [] visibility = STV_PROTECTED -> 2
    [] visibility = STV_DEFAULT -> 3

\* mutant: the merged visibility is stored without the comparison
merge_visibility_Store(current, visibility) ==
  IF visibility = STV_INTERNAL THEN STV_HIDDEN ELSE visibility

\* ObjectFile::merge_visibility: the visibility of the symbol afterwards
merge_visibility(current, visibility) ==
  LET v == IF visibility = STV_INTERNAL THEN STV_HIDDEN ELSE visibility IN
  IF VisPriority(v) < VisPriority(current) THEN v ELSE current

\* mutant: exclude_libs is ignored
MarkedVisibility_Own(f, esym) == esym.st_visibility

\* the visibility ObjectFile::mark_live_objects merges for an entry
MarkedVisibility(f, esym) ==
  IF ~is_undef(esym) /\ f.exclude_libs THEN STV_HIDDEN ELSE esym.st_visibility

\* mutant: a common entry is never followed
ObjInteresting_NoCommonRef(files, esym, sym) ==
  /\ sym.file # Null
  /\ is_undef(esym) /\ (~is_weak(esym) \/ files[sym.file].is_dso)

\* mutant: a weak undefined entry is followed like a strong one
ObjInteresting_WeakPulls(files, esym, sym) ==
  /\ sym.file # Null
  /\ \/ is_undef(esym)
     \/ is_common(esym) /\ ~is_common(EsymOf(files, sym))

\* mutant: every entry of a defined symbol is followed
ObjInteresting_AnyEntry(files, esym, sym) == sym.file # Null

\* the references that make ObjectFile::mark_live_objects keep sym.file
ObjInteresting(files, esym, sym) ==
  /\ sym.file # Null
  /\ \/ is_undef(esym) /\ (~is_weak(esym) \/ files[sym.file].is_dso)
     \/ is_common(esym) /\ ~is_common(EsymOf(files, sym))

\* the references that make SharedFile::mark_live_objects keep sym.file
DsoInteresting(files, esym, sym, allow_shlib_undefined) ==
  /\ is_undef(esym) /\ ~is_weak(esym)
  /\ sym.file # Null
  /\ ~files[sym.file].is_dso \/ ~allow_shlib_undefined

\* mutant: the flag is tested but not set
TestAndSet_NoSet(reach, g) == reach

\* mutant: the flag is flipped
TestAndSet_Flip(reach, g) == [reach EXCEPT ![g] = ~@]

\* is_reachable.test_and_set(): the flag afterwards (the old flag is returned)
TestAndSet(reach, g) == [reach EXCEPT ![g] = TRUE]

\* mutant: a call of mark_live_objects does not return after its last entry
MarkPc_NoReturn(files, f, from) ==
  IF from >= Size(files[f].elf_syms) THEN "stuck" ELSE "mark"

\* the position of a task that starts (or goes on with) mark_live_objects of f
MarkPc(files, f, from) == IF from >= Size(files[f].elf_syms) THEN "done" ELSE "mark"

\* one iteration of the loop of mark_live_objects of f; g is sym.file when the
\* reference is interesting, and then the flag of g is tested and set and, if
\* it was clear, feeder(g) starts a task for g
MarkEntry(f, newvis, interesting) ==
  LET i == idx[f]
      key == file[f].symbols[i]
      g == symtab[key].file
      feeds == interesting /\ ~is_reachable[g] IN
  /\ symtab' = [symtab EXCEPT ![key].visibility = newvis]
  /\ is_reachable' = IF interesting THEN TestAndSet(is_reachable, g) ELSE is_reachable
  /\ stable' = (stable /\ is_reachable' = is_reachable)
  /\ fed' = IF feeds /\ fed[g] < FedCap THEN [fed EXCEPT ![g] = @ + 1] ELSE fed
  /\ pc' = [h \in DOMAIN pc |->
              IF feeds /\ h = g THEN MarkPc(file, g, file[g].first_global)
              ELSE IF h = f THEN MarkPc(file, f, i + 1)
              ELSE pc[h]]
  /\ idx' = [h \in DOMAIN idx |->
              IF feeds /\ h = g THEN file[g].first_global
              ELSE IF h = f THEN i + 1
              ELSE idx[h]]
  /\ UNCHANGED <<idleVars, file, mu, arch, phase, round, ctx>>

\* ObjectFile::mark_live_objects, one iteration
MarkObject(f) ==
  LET esym == file[f].elf_syms[idx[f]]
      sym == symtab[file[f].symbols[idx[f]]] IN
  /\ phase = "trace" /\ pc[f] = "mark" /\ ~file[f].is_dso
  /\ MarkEntry(f, merge_visibility(sym.visibility, MarkedVisibility(file[f], esym)),
               ObjInteresting(file, esym, sym))

\* SharedFile::mark_live_objects, one iteration
MarkShared(f) ==
  LET esym == file[f].elf_syms[idx[f]]
      sym == symtab[file[f].symbols[idx[f]]] IN
  /\ phase = "trace" /\ pc[f] = "mark" /\ file[f].is_dso
  /\ MarkEntry(f, sym.visibility,
               DsoInteresting(file, esym, sym, ctx.allow_shlib_undefined))

----------------------------------------------------------------------------
(* The driver: resolution passes, each followed by a tracing pass *)

Quiet == \A f \in DOMAIN pc : pc[f] \in {"done", "wait"}

\* all files have run resolve_symbols: the reachable files are traced
BeginTrace ==
  /\ phase = "resolve" /\ Quiet
  /\ phase' = "trace"
  /\ stable' = TRUE
  /\ pc' = [f \in DOMAIN pc |->
              IF is_reachable[f] THEN MarkPc(file, f, file[f].first_global)
              ELSE "wait"]
  /\ idx' = [f \in DOMAIN idx |-> file[f].first_global]
  /\ arch' = [f \in DOMAIN arch |-> NoComparison]
  /\ UNCHANGED <<idleVars, file, is_reachable, symtab, mu, round, fed, ctx>>

\* the files are parsed, or a tracing pass has finished: all files run
\* resolve_symbols
BeginResolve ==
  /\ phase \in {"parsed", "trace"} /\ Quiet /\ round < MaxRounds
  /\ phase' = "resolve"
  /\ round' = round + 1
  /\ pc' = [f \in DOMAIN pc |-> ResolvePc(file, symtab, f, file[f].first_global)]
  /\ idx' = [f \in DOMAIN idx |-> NextEntry(file, symtab, f, file[f].first_global)]
  /\ UNCHANGED <<idleVars, file, is_reachable, symtab, mu, arch, fed, stable, ctx>>

\* the last tracing pass has finished
Finish ==
  /\ phase = "trace" /\ Quiet /\ round = MaxRounds
  /\ phase' = "end"
  /\ UNCHANGED <<idleVars, file, is_reachable, symtab, mu, pc, idx, arch, round, fed,
                 stable, ctx>>

----------------------------------------------------------------------------
(* ObjectFile::convert_common_symbols *)

\* has_common_symbol, as initialize_symbols sets it
has_common_symbol(f) == \E i \in Globals(f) : is_common(f.elf_syms[i])

\* mutant: the common entry is converted whoever defines the symbol
OwnsSymbol_Always(sym, f) == TRUE

\* sym.file == this: the symbol is resolved to the common entry's file
OwnsSymbol(sym, f) == sym.file = f

\* the assignments of convert_common_symbols to sym; shndx is the index of
\* the new NOBITS section
ConvertWrite(sym, f, i, shndx, default_version) ==
  [sym EXCEPT !.origin = SectionOrigin(f, shndx), !.value = 0, !.sym_idx = i,
              !.ver_idx = default_version, !.is_weak = FALSE]

\* the position of the task of f in convert_common_symbols
ConvertPc(files, f, from) ==
  IF files[f].is_dso \/ ~has_common_symbol(files[f])
     \/ from >= Size(files[f].elf_syms)
  THEN "done" ELSE "convert"

\* resolution and tracing are over: the reachable objects convert their
\* common symbols
BeginConvert ==
  /\ phase = "end"
  /\ phase' = "convert"
  /\ pc' = [f \in DOMAIN pc |->
              IF is_reachable[f] THEN ConvertPc(file, f, file[f].first_global)
              ELSE "done"]
  /\ idx' = [f \in DOMAIN idx |-> file[f].first_global]
  /\ UNCHANGED <<idleVars, file, is_reachable, symtab, mu, arch, round, fed,
                 stable, ctx>>

\* convert_common_symbols, one iteration: a common entry whose symbol the
\* file owns gets a new NOBITS section
ConvertCommon(f) ==
  LET i == idx[f]
      key == file[f].symbols[i]
      converts == is_common(file[f].elf_syms[i]) /\ OwnsSymbol(symtab[key], f)
      shndx == Len(file[f].sections) + 1 IN
  /\ phase = "convert" /\ pc[f] = "convert"
  /\ IF converts
     THEN /\ file' = [file EXCEPT ![f].sections = Append(@, "common")]
          /\ symtab' = [symtab EXCEPT ![key] =
                          ConvertWrite(@, f, i, shndx, ctx.default_version)]
     ELSE UNCHANGED <<file, symtab>>
  /\ pc' = [pc EXCEPT ![f] = ConvertPc(file, f, i + 1)]
  /\ idx' = [idx EXCEPT ![f] = i + 1]
  /\ UNCHANGED <<idleVars, is_reachable, mu, arch, phase, round, fed, stable, ctx>>

----------------------------------------------------------------------------
(* Input files of the model *)

\* the sections of every object of the model: section 1 is alive, section 2
\* is dead (a member of a COMDAT group that lost), section 3 was not kept
ObjSections == <<"alive", "dead", "null">>

\* the global entries an object can hold for a name
ObjEntries(name, value, vis) ==
  { Esym(name, STB_GLOBAL, SHN_UNDEF, 0, vis),
    Esym(name, STB_WEAK, SHN_UNDEF, 0, vis),
    Esym(name, STB_GLOBAL, 1, value, vis),
    Esym(name, STB_WEAK, 1, value, vis),
    Esym(name, STB_GLOBAL, SHN_COMMON, value, vis),
    Esym(name, STB_GLOBAL, SHN_ABS, value, vis),
    Esym(name, STB_GLOBAL, 2, value, vis) }

\* the dynamic symbols a shared object can hold for a name
DsoEntries(name, value) ==
  { Esym(name, STB_GLOBAL, SHN_UNDEF, 0, STV_DEFAULT),
    Esym(name, STB_GLOBAL, 1, value, STV_DEFAULT),
    Esym(name, STB_WEAK, 1, value, STV_DEFAULT) }

NullEsym == Esym(<<>>, 0, SHN_UNDEF, 0, STV_DEFAULT)

\* the versym tables of a shared object with one dynamic symbol after the null
\* symbol: none, default version 2, hidden version 2, local
Versyms == { <<>>, Z(<<0, 2>>), Z(<<0, 2 + VERSYM_HIDDEN>>), Z(<<0, VER_NDX_LOCAL>>) }
VersionStrings == Z(<<<<>>, <<>>, S_v>>)

\* a shared object with the one dynamic symbol e
Dso(prio, e, vers) == SharedFile(prio, Z(<<NullEsym, e>>), 1, vers, VersionStrings)

HasUndefStrong(f) ==
  \E i \in Globals(f) : is_undef(f.elf_syms[i]) /\ ~is_weak(f.elf_syms[i])

Scenario(files, reach, allow, skipped) ==
  [files |-> files, reach |-> reach, allow |-> allow, skipped |-> skipped]

\* an election of the name f between a reachable object a, an object b that
\* may be an archive member, and a shared object s that either comes first and
\* is needed or comes last and is loaded as needed
ElectionInputs ==
  { sc \in
  { Scenario("a" :> ObjectFile(1, <<ea>>, ObjSections)
               @@ "b" :> ObjectFile(2, <<eb>>, ObjSections)
               @@ "s" :> Dso(ps, es, vs),
             "a" :> TRUE @@ "b" :> rb @@ "s" :> rs,
             allow, {}) :
      ea \in ObjEntries(S_f, 11, STV_DEFAULT),
      eb \in { e \in ObjEntries(S_f, 21, STV_PROTECTED) : e.st_shndx \notin {SHN_ABS, 2} },
      es \in DsoEntries(S_f, 31),
      vs \in Versyms \ {Z(<<0, VER_NDX_LOCAL>>)}, ps \in {0, 3},
      rb \in BOOLEAN, rs \in BOOLEAN,
      allow \in BOOLEAN } :
    /\ sc.files["s"].priority = 0 <=> sc.reach["s"]
    /\ sc.allow => HasUndefStrong(sc.files["s"]) }

\* two shared objects s and t, and an object a with an entry named f@v or f;
\* DSO definitions of f are to be skipped only where an object holds an entry
\* of f that is not of default visibility
AliasInputs ==
  { sc \in
  { Scenario("a" :> ObjectFile(1, <<ea>>, ObjSections)
               @@ "s" :> Dso(2, Esym(S_f, STB_GLOBAL, 1, 31, STV_DEFAULT), Z(<<0, 2>>))
               @@ "t" :> Dso(pt, et, vt),
             "a" :> ra @@ "s" :> TRUE @@ "t" :> TRUE,
             FALSE, skipped) :
      ea \in { e \in ObjEntries(S_fv, 11, STV_HIDDEN) \cup ObjEntries(S_f, 11, STV_HIDDEN) :
                 e.st_shndx \in {SHN_UNDEF, 1} },
      et \in { e \in DsoEntries(S_f, 41) \cup DsoEntries(S_fv, 41) : ~is_undef(e) },
      vt \in Versyms, pt \in {0, 3}, ra \in BOOLEAN,
      skipped \in {{}, {S_f}} } :
    sc.skipped # {} => sc.files["a"].elf_syms[1].st_name = S_f }

\* an object from an archive that --exclude-libs names
ExcludedObject(prio, globals, sections) ==
  [ObjectFile(prio, globals, sections) EXCEPT !.exclude_libs = TRUE]

\* an archive member: excluded by --exclude-libs or not
Member(prio, globals, excluded) ==
  IF excluded THEN ExcludedObject(prio, globals, ObjSections)
  ELSE ObjectFile(prio, globals, ObjSections)

\* an object d given on the command line and an archive of the two members a
\* and b: d refers to the name f, which a defines; b defines the name g, to
\* which a may refer
ArchiveInputs ==
  { Scenario("d" :> ObjectFile(1, <<ed>>, ObjSections)
               @@ "a" :> Member(2, <<Esym(S_f, STB_GLOBAL, 1, 11, va)>> \o ra, xa)
               @@ "b" :> Member(3, <<Esym(S_g, STB_GLOBAL, 1, 21, STV_DEFAULT)>>, xb),
             "d" :> TRUE @@ "a" :> FALSE @@ "b" :> FALSE,
             FALSE, {}) :
      ed \in { Esym(S_f, STB_GLOBAL, SHN_UNDEF, 0, STV_DEFAULT),
               Esym(S_f, STB_WEAK, SHN_UNDEF, 0, STV_DEFAULT),
               Esym(S_f, STB_GLOBAL, SHN_COMMON, 8, STV_DEFAULT) },
      va \in {STV_DEFAULT, STV_PROTECTED},
      ra \in { <<>>, <<Esym(S_g, STB_GLOBAL, SHN_UNDEF, 0, STV_PROTECTED)>> },
      xa \in BOOLEAN, xb \in BOOLEAN }

Inputs == ElectionInputs \cup AliasInputs \cup ArchiveInputs

----------------------------------------------------------------------------
(* Specification of resolution and tracing *)

InternIdle ==
  /\ symbol_map = <<>> /\ heap = <<>> /\ ipc = <<>> /\ iarg = <<>>
  /\ iret = {} /\ ncalls = 0

RankIdle == rk = <<>>

VisIdle == mv = <<>>

ObjIdle == objfile = <<>>
DsoIdle == sofile = <<>>
MrgIdle == pieces = <<>>
CrelIdle == crel = <<>>
HdrIdle == mapped = <<>>
SecIdle == isecs = <<>>
EhIdle == ehframe = <<>>
OutIdle == symout = <<>>
LateIdle == SecIdle /\ EhIdle /\ OutIdle
EarlyIdle == ObjIdle /\ DsoIdle /\ MrgIdle /\ CrelIdle /\ HdrIdle
ParseIdle == EarlyIdle /\ LateIdle

InitialSymbols(files, skipped) ==
  [k \in KeysOf(files) |->
     [NewSymbol(NameOfKey(k)) EXCEPT !.skip_dso = (k \in skipped)]]

\* all files are parsed
Init ==
  /\ \E sc \in Inputs :
       /\ file = sc.files
       /\ is_reachable = sc.reach
       /\ symtab = InitialSymbols(sc.files, sc.skipped)
       /\ ctx = [allow_shlib_undefined |-> sc.allow, default_version |-> VER_NDX_GLOBAL]
  /\ mu = [k \in DOMAIN symtab |-> Null]
  /\ pc = [f \in DOMAIN file |-> "wait"]
  /\ idx = [f \in DOMAIN file |-> file[f].first_global]
  /\ arch = [f \in DOMAIN file |-> NoComparison]
  /\ phase = "parsed" /\ round = 0
  /\ fed = [f \in DOMAIN file |-> 0]
  /\ stable = FALSE
  /\ InternIdle /\ RankIdle /\ VisIdle /\ ParseIdle

Next ==
  \/ \E f \in DOMAIN file : Lock(f)
  \/ \E f \in DOMAIN file : WriteA(f)
  \/ \E f \in DOMAIN file : WriteB(f)
  \/ \E f \in DOMAIN file : Lock2(f)
  \/ \E f \in DOMAIN file : WriteAlias(f)
  \/ \E f \in DOMAIN file : MarkObject(f)
  \/ \E f \in DOMAIN file : MarkShared(f)
  \/ BeginTrace
  \/ BeginResolve
  \/ Finish
  \/ BeginConvert
  \/ \E f \in DOMAIN file : ConvertCommon(f)

Spec == Init /\ [][Next]_vars

----------------------------------------------------------------------------
(* Properties of resolution *)

\* the class of a definition as the specification tabulates it
SpecClass(dso, reachable, weak, common) ==
  IF common THEN (IF reachable THEN 5 ELSE 6)
  ELSE IF ~dso /\ reachable THEN (IF weak THEN 2 ELSE 1)
  ELSE IF weak THEN 4 ELSE 3

\* the rank of entry i of file f: the class above bit 24, the priority below
SpecRankOf(f, i) ==
  SpecClass(file[f].is_dso, is_reachable[f], is_weak(file[f].elf_syms[i]),
            is_common(file[f].elf_syms[i])) * RankShift + file[f].priority

\* the entries bound to key k, as <<file, index>>: through symbols, or
\* through symbols2 for the alias of a default-versioned entry of a DSO
EntriesOf(k) ==
  { e \in UNION { {f} \X Globals(file[f]) : f \in DOMAIN file } :
      k \in {file[e[1]].symbols[e[2]], file[e[1]].symbols2[e[2]]} }

\* the non-undefined entries of key k
Definitions(k) == { e \in EntriesOf(k) : ~is_undef(file[e[1]].elf_syms[e[2]]) }

\* the definitions of key k that resolve_symbols does not pass over: of an
\* object, absolute and common entries and those in a kept, alive section; of
\* a DSO, those whose symbol (the base symbol, for an alias) is not skip_dso
LiveDefinitions(k) ==
  { e \in Definitions(k) :
      IF file[e[1]].is_dso
      THEN ~symtab[file[e[1]].symbols[e[2]]].skip_dso
      ELSE LET esym == file[e[1]].elf_syms[e[2]] IN
           is_abs(esym) \/ is_common(esym) \/ file[e[1]].sections[esym.st_shndx] = "alive" }

\* a resolution pass has ended: every file has run resolve_symbols
PassDone == phase = "resolve" /\ Quiet

\* the chosen definition of k is the one of minimum rank among cands
ChoosesMinimum(k, cands) ==
  cands # {} =>
    /\ <<symtab[k].file, symtab[k].sym_idx>> \in cands
    /\ \A e \in cands :
         SpecRankOf(symtab[k].file, symtab[k].sym_idx) <= SpecRankOf(e[1], e[2])

\* C1 as stated: after a resolution pass every symbol's chosen (file, sym_idx)
\* is the definition of minimum rank among all non-undefined entries of the
\* symbol in all files
C1_MinRankOfAllDefinitions ==
  PassDone => \A k \in DOMAIN symtab : ChoosesMinimum(k, Definitions(k))

\* C1 amended: after a resolution pass every symbol's chosen (file, sym_idx)
\* is the definition of minimum rank among the definitions resolve_symbols
\* does not pass over (kept and alive section, symbol not skip_dso); a symbol
\* without such a definition has no file
C1_MinRankOfLiveDefinitions ==
  PassDone =>
    \A k \in DOMAIN symtab :
      /\ ChoosesMinimum(k, LiveDefinitions(k))
      /\ LiveDefinitions(k) = {} => symtab[k].file = Null

\* C1 witness: a pass has ended with the name f defined by b, which outranks
\* the live definition of the shared object s, while the definition of a, in a
\* dead section, was passed over
C1_Witness ==
  /\ PassDone
  /\ symtab[S_f].file = "b"
  /\ <<"s", 0>> \in LiveDefinitions(S_f)
  /\ <<"a", 1>> \in Definitions(S_f) \ LiveDefinitions(S_f)

\* the key of the symbol that the next comparison of f is about
ComparedKey(f) ==
  IF pc[f] = "lock" THEN file[f].symbols[idx[f]] ELSE file[f].symbols2[idx[f]]

\* this step is the comparison of f: f leaves "lock" or "lock2"
Compares(f) ==
  /\ phase = "resolve" /\ pc[f] \in {"lock", "lock2"}
  /\ pc'[f] # pc[f] \/ idx'[f] # idx[f]

\* f is between a comparison it won and the end of its assignments to key k
Writing(f, k) ==
  \/ pc[f] \in {"writeA", "writeB"} /\ file[f].symbols[idx[f]] = k
  \/ pc[f] = "writeAlias" /\ file[f].symbols2[idx[f]] = k

\* C2: in both resolve_symbols a candidate overwrites the current definition
\* of a symbol if and only if its rank is strictly less than the rank of the
\* current definition; the comparison itself, and a candidate of equal or
\* greater rank, leave every field of every symbol unchanged
C2_OverwriteIffStrictlyLess ==
  [][ /\ \A f \in DOMAIN file :
           Compares(f) =>
             /\ (pc'[f] \in {"writeA", "writeAlias"})
                  <=> (CandRank(file, is_reachable, f, idx[f])
                         < SymRank(file, is_reachable, symtab[ComparedKey(f)]))
             /\ symtab' = symtab
      /\ \A k \in DOMAIN symtab :
           (phase = "resolve" /\ symtab'[k] # symtab[k]) =>
             \E f \in DOMAIN file : Writing(f, k) ]_vars

\* C2 witness: a file has won a comparison against the definition of another
\* file and is about to overwrite it, in a pass in which another file has
\* lost its comparison
C2_Witness ==
  \E f \in DOMAIN file :
    /\ phase = "resolve" /\ pc[f] = "writeA"
    /\ symtab[file[f].symbols[idx[f]]].file \notin {Null, f}
    /\ \E g \in DOMAIN file :
         /\ pc[g] = "done" /\ arch[g].valid
         /\ symtab[file[f].symbols[idx[f]]].file # g

\* the classes get_rank computes for the definitions of the files, for both
\* values of is_in_archive, are those of the table; no file is class 7
ClassesAgree ==
  /\ \A f \in DOMAIN file : \A i \in Globals(file[f]) : \A in_archive \in BOOLEAN :
       LET esym == file[f].elf_syms[i] IN
       ~is_undef(esym) =>
         get_sym_rank(file[f], esym, in_archive)
           = SpecClass(file[f].is_dso, ~in_archive, is_weak(esym), is_common(esym))
  /\ \A k \in DOMAIN symtab :
       symtab[k].file = Null => SymRank(file, is_reachable, symtab[k]) = 7 * RankShift

\* C3 as stated: the classes are those of the table, and for the candidate and
\* for the incumbent of every comparison the in_archive input is the negation
\* of the file's is_reachable flag
C3_InArchiveIsNotReachable ==
  /\ ClassesAgree
  /\ \A f \in DOMAIN file :
       (phase = "resolve" /\ arch[f].valid) =>
         /\ arch[f].cand = ~is_reachable[f]
         /\ arch[f].inc_file # Null => arch[f].inc = ~is_reachable[arch[f].inc_file]

\* C3 amended: the classes are those of the table; the in_archive input is the
\* negation of the file's is_reachable flag for the incumbent and for a
\* candidate of an object file, and it is false for a candidate of a DSO
C3_InArchiveInputs ==
  /\ ClassesAgree
  /\ \A f \in DOMAIN file :
       (phase = "resolve" /\ arch[f].valid) =>
         /\ arch[f].cand = (IF file[f].is_dso THEN FALSE ELSE ~is_reachable[f])
         /\ arch[f].inc_file # Null => arch[f].inc = ~is_reachable[arch[f].inc_file]

\* C3 witness: a DSO that is not reachable has compared its definition with
\* the definition of an archive member that is not reachable either
C3_Witness ==
  \E f \in DOMAIN file :
    /\ phase = "resolve" /\ arch[f].valid
    /\ file[f].is_dso /\ ~is_reachable[f]
    /\ arch[f].inc_file # Null /\ ~file[arch[f].inc_file].is_dso
    /\ ~is_reachable[arch[f].inc_file]

\* no call of resolve_symbols is running, and convert_common_symbols has not
\* begun to rewrite the symbols resolve_symbols left
NoCallRunning ==
  /\ phase # "convert"
  /\ \A f \in DOMAIN file : pc[f] \in {"wait", "done", "mark"}

\* the input section of a symbol, as <<file, section index>>, or <<>>
InputSectionOf(sym) ==
  IF sym.origin.kind = "isec" THEN <<sym.origin.file, sym.origin.shndx>> ELSE <<>>

\* the symbol k holds, in all seven fields, what the one entry e defines
FromEntry(k, e) ==
  LET f == file[e[1]]
      esym == f.elf_syms[e[2]]
      sym == symtab[k] IN
  /\ sym.file = e[1] /\ sym.sym_idx = e[2]
  /\ sym.value = esym.st_value
  /\ sym.is_weak = (IF f.is_dso THEN TRUE ELSE is_weak(esym))
  /\ sym.ver_idx = (IF f.is_dso THEN f.versyms[e[2]] ELSE ctx.default_version)
  /\ InputSectionOf(sym) =
       (IF f.is_dso \/ is_abs(esym) \/ is_common(esym) THEN <<>>
        ELSE <<e[1], esym.st_shndx>>)
  /\ sym.is_versioned_default = (f.symbols[e[2]] # k)

\* the alias k holds the four fields the default-versioned entry e gives it
AliasFromEntry(k, e) ==
  LET sym == symtab[k] IN
  /\ file[e[1]].symbols2[e[2]] = k
  /\ sym.file = e[1] /\ sym.sym_idx = e[2]
  /\ sym.origin = SymbolOrigin(file[e[1]].symbols[e[2]])
  /\ sym.is_versioned_default

\* C5 as stated: when all resolve_symbols calls have finished, the file,
\* input_section, value, sym_idx, ver_idx, is_weak and is_versioned_default of
\* every defined symbol come from one single candidate
C5_AllFieldsFromOneCandidate ==
  NoCallRunning =>
    \A k \in DOMAIN symtab :
      symtab[k].file # Null => \E e \in Definitions(k) : FromEntry(k, e)

\* C5 amended: at most one thread at a time is between its comparison and the
\* end of its writes to a symbol, and it holds the symbol's mutex; when all
\* resolve_symbols calls have finished, a defined symbol that is not a
\* versioned-default alias has all seven fields from one single
\* candidate; a versioned-default alias has file, origin, sym_idx and
\* is_versioned_default from one single default-versioned DSO entry (its
\* value, ver_idx and is_weak are not written by the alias update)
C5_FieldsFromOneUpdate ==
  /\ \A k \in DOMAIN symtab :
       /\ Cardinality({ f \in DOMAIN file : Writing(f, k) }) <= 1
       /\ \A f \in DOMAIN file : Writing(f, k) => mu[k] = f
  /\ NoCallRunning =>
       \A k \in DOMAIN symtab :
         symtab[k].file # Null =>
           IF symtab[k].is_versioned_default
           THEN \E e \in Definitions(k) : AliasFromEntry(k, e)
           ELSE \E e \in Definitions(k) : FromEntry(k, e)

\* C5 witness: all calls have finished; the name f, for which two files hold
\* live definitions, is defined, and the alias f@v taken by the shared object
\* s still has the value an object wrote before
C5_Witness ==
  /\ PassDone
  /\ symtab[S_f].file # Null
  /\ Cardinality({ e[1] : e \in LiveDefinitions(S_f) }) >= 2
  /\ S_fv \in DOMAIN symtab
  /\ symtab[S_fv].is_versioned_default /\ symtab[S_fv].value # 0

\* f can take its next step
Runnable(f) ==
  \/ pc[f] \in {"writeA", "writeB", "writeAlias"}
  \/ pc[f] = "lock" /\ MutexFree(mu, file[f].symbols[idx[f]])
  \/ pc[f] = "lock2" /\ MutexFree(mu, file[f].symbols2[idx[f]])

\* C6: while files run resolve_symbols, some running call can always take a
\* step (no deadlock); a thread waiting for an alias holds the base symbol and
\* the alias is another symbol; no two threads wait for each other's symbol
C6_NoDeadlock ==
  phase = "resolve" =>
    /\ ~Quiet => \E f \in DOMAIN file : Runnable(f)
    /\ \A f \in DOMAIN file :
         pc[f] = "lock2" =>
           /\ mu[file[f].symbols[idx[f]]] = f
           /\ file[f].symbols2[idx[f]] # file[f].symbols[idx[f]]
           /\ \A g \in DOMAIN file :
                pc[g] = "lock2" =>
                  ~(/\ file[g].symbols[idx[g]] = file[f].symbols2[idx[f]]
                    /\ file[f].symbols[idx[f]] = file[g].symbols2[idx[g]])

\* C6 witness: a shared object holds its base symbol and waits for the alias,
\* whose mutex another shared object holds
C6_Witness ==
  \E f \in DOMAIN file : \E g \in DOMAIN file \ {f} :
    /\ phase = "resolve" /\ pc[f] = "lock2"
    /\ file[g].is_dso
    /\ mu[file[f].symbols2[idx[f]]] = g

\* C7: a resolution pass that follows a complete pass, with the reachability
\* flags unchanged, changes no field of any symbol
C7_Idempotent == [][ (phase = "resolve" /\ stable) => symtab' = symtab ]_vars

\* C7 witness: in a repeated pass a file has met its own definition as the
\* incumbent, and another file has met the definition of a different file
C7_Witness ==
  /\ phase = "resolve" /\ stable /\ Quiet
  /\ \E f \in DOMAIN file : arch[f].valid /\ arch[f].inc_file = f
  /\ \E g \in DOMAIN file : arch[g].valid /\ arch[g].inc_file \notin {g, Null}

\* C10: no step clears the is_reachable flag of a file
C10_ReachableMonotonic ==
  [][ \A f \in DOMAIN file : is_reachable[f] => is_reachable'[f] ]_vars

\* C10 witness: tracing has ended, a file was made reachable by feeder, and
\* test_and_set has also been applied to a flag that was already set
C10_Witness ==
  /\ phase = "end"
  /\ \E f \in DOMAIN file : fed[f] > 0 /\ is_reachable[f]

----------------------------------------------------------------------------
(* The symbol interner: get_symbol *)

Callers == {"t1", "t2"}
InternKeys == {S_f, S_fv}
InternNames == {S_g, S_fv}

ResolveIdle ==
  /\ file = <<>> /\ is_reachable = <<>> /\ symtab = <<>> /\ mu = <<>>
  /\ pc = <<>> /\ idx = <<>> /\ arch = <<>> /\ phase = "none" /\ round = 0
  /\ fed = <<>> /\ stable = FALSE
  /\ ctx = [allow_shlib_undefined |-> FALSE, default_version |-> VER_NDX_GLOBAL]

\* mutant: the map binds the key to a new Symbol on every insert
MapInsert_AlwaysNew(map, hp, key, name) ==
  [map |-> [k \in DOMAIN map \cup {key} |->
              IF k = key THEN Len(hp) + 1 ELSE map[k]],
   heap |-> Append(hp, NewSymbol(name)),
   acc |-> Len(hp) + 1]

\* mutant: an insert with a known key assigns the new Symbol to the old one
MapInsert_Assign(map, hp, key, name) ==
  IF key \in DOMAIN map
  THEN [map |-> map, heap |-> [hp EXCEPT ![map[key]] = NewSymbol(name)],
        acc |-> map[key]]
  ELSE [map |-> [k \in DOMAIN map \cup {key} |->
                   IF k = key THEN Len(hp) + 1 ELSE map[k]],
        heap |-> Append(hp, NewSymbol(name)),
        acc |-> Len(hp) + 1]

\* ctx.symbol_map.insert(acc, {key, Symbol(name)}): one atomic operation of
\* the concurrent map.  A known key leaves the map alone; a new key gets a
\* new Symbol at a new address.  acc is the address the accessor points at.
MapInsert(map, hp, key, name) ==
  IF key \in DOMAIN map
  THEN [map |-> map, heap |-> hp, acc |-> map[key]]
  ELSE [map |-> [k \in DOMAIN map \cup {key} |->
                   IF k = key THEN Len(hp) + 1 ELSE map[k]],
        heap |-> Append(hp, NewSymbol(name)),
        acc |-> Len(hp) + 1]

\* get_symbol(ctx, key, name) is called
GetSymbolNamed(t, key, name) ==
  /\ ipc[t] = "idle" /\ ncalls < MaxCalls
  /\ ncalls' = ncalls + 1
  /\ iarg' = [iarg EXCEPT ![t] = [key |-> key, name |-> name, acc |-> 0]]
  /\ ipc' = [ipc EXCEPT ![t] = "insert"]
  /\ UNCHANGED <<resolveVars, rk, mv, parseVars, symbol_map, heap, iret>>

\* get_symbol(ctx, key) is called: the name is the key up to the atsign
GetSymbolByKey(t, key) ==
  /\ ipc[t] = "idle" /\ ncalls < MaxCalls
  /\ ncalls' = ncalls + 1
  /\ iarg' = [iarg EXCEPT ![t] = [key |-> key, name |-> NameOfKey(key), acc |-> 0]]
  /\ ipc' = [ipc EXCEPT ![t] = "insert"]
  /\ UNCHANGED <<resolveVars, rk, mv, parseVars, symbol_map, heap, iret>>

\* the insert of get_symbol
Insert(t) ==
  LET r == MapInsert(symbol_map, heap, iarg[t].key, iarg[t].name) IN
  /\ ipc[t] = "insert"
  /\ symbol_map' = r.map
  /\ heap' = r.heap
  /\ iarg' = [iarg EXCEPT ![t].acc = r.acc]
  /\ ipc' = [ipc EXCEPT ![t] = "return"]
  /\ UNCHANGED <<resolveVars, rk, mv, parseVars, iret, ncalls>>

\* return &acc->second
Return(t) ==
  /\ ipc[t] = "return"
  /\ iret' = iret \cup {[caller |-> t, key |-> iarg[t].key, name |-> iarg[t].name,
                         addr |-> iarg[t].acc]}
  /\ ipc' = [ipc EXCEPT ![t] = "idle"]
  /\ UNCHANGED <<resolveVars, rk, mv, parseVars, symbol_map, heap, iarg, ncalls>>

\* the entry through which a resolver defines an interned symbol
DefiningEsym == Esym(S_f, STB_GLOBAL, SHN_ABS, 11, STV_DEFAULT)

\* a file that was handed the symbol at address a defines it: the first
\* assignments of ObjectFile::resolve_symbols
Define(a) ==
  /\ \E p \in iret : p.addr = a
  /\ heap[a].file = Null
  /\ heap' = [heap EXCEPT ![a] = ObjWriteA(@, "a", DefiningEsym)]
  /\ UNCHANGED <<resolveVars, rk, mv, parseVars, symbol_map, ipc, iarg, iret, ncalls>>

InitIntern ==
  /\ ResolveIdle /\ RankIdle /\ VisIdle /\ ParseIdle
  /\ symbol_map = <<>> /\ heap = <<>>
  /\ ipc = [t \in Callers |-> "idle"]
  /\ iarg = [t \in Callers |-> [key |-> <<>>, name |-> <<>>, acc |-> 0]]
  /\ iret = {} /\ ncalls = 0

NextIntern ==
  \/ \E t \in Callers, key \in InternKeys, name \in InternNames :
       GetSymbolNamed(t, key, name)
  \/ \E t \in Callers, key \in InternKeys : GetSymbolByKey(t, key)
  \/ \E t \in Callers : Insert(t)
  \/ \E t \in Callers : Return(t)
  \/ \E a \in DOMAIN heap : Define(a)

SpecIntern == InitIntern /\ [][NextIntern]_vars

\* C8: one Symbol is created per key; all get_symbol calls with the same key
\* have returned the same address, which is the address the map holds for the
\* key, and calls with different keys have returned different addresses
C8_OneSymbolPerKey ==
  /\ Len(heap) = Cardinality(DOMAIN symbol_map)
  /\ \A p \in iret : symbol_map[p.key] = p.addr
  /\ \A p \in iret : \A q \in iret : (p.key = q.key) <=> (p.addr = q.addr)

\* C8 witness: two callers are inside get_symbol with the same key at the same
\* time, both past the insert, and a call with another key has returned
C8_Witness ==
  /\ ipc["t1"] = "return" /\ ipc["t2"] = "return"
  /\ iarg["t1"].key = iarg["t2"].key
  /\ \E p \in iret : p.key # iarg["t1"].key

\* C9: a step of a get_symbol call changes no field of a Symbol that exists;
\* the name of a Symbol never changes; a new Symbol has the name argument of
\* the call that created it
C9_NameStoredOnCreation ==
  [][ /\ \A a \in DOMAIN heap :
           /\ heap'[a].name = heap[a].name
           /\ (\E t \in Callers : ipc'[t] # ipc[t]) => heap'[a] = heap[a]
      /\ Len(heap') # Len(heap) =>
           \E t \in Callers :
             /\ ipc[t] = "insert" /\ ipc'[t] = "return"
             /\ DOMAIN heap' = DOMAIN heap \cup {iarg'[t].acc}
             /\ heap'[iarg'[t].acc] = NewSymbol(iarg[t].name) ]_vars

\* C9 witness: a call with the key of a Symbol that a file has defined, and
\* with a name other than the stored one, has returned that Symbol
C9_Witness ==
  \E p \in iret :
    /\ heap[p.addr].name # p.name
    /\ heap[p.addr].file # Null

----------------------------------------------------------------------------
(* The rank as a number: get_rank on pairs of candidates *)

\* the file priorities of the candidates
Priorities == {0, 1, RankShift - 1, RankShift}

\* a candidate: the file's kind and priority, the entry and is_in_archive
RankCandidates ==
  { c \in [is_dso : BOOLEAN, priority : Priorities, in_archive : BOOLEAN,
           esym : { Esym(S_f, STB_GLOBAL, 1, 0, STV_DEFAULT),
                    Esym(S_f, STB_WEAK, 1, 0, STV_DEFAULT),
                    Esym(S_f, STB_GLOBAL, SHN_COMMON, 0, STV_DEFAULT) }] :
      c.is_dso => ~is_common(c.esym) /\ ~c.in_archive }

\* get_rank(file, esym, is_in_archive) of a candidate
RankOfCandidate(c) ==
  get_rank([is_dso |-> c.is_dso, priority |-> c.priority], c.esym, c.in_archive)

InitRank ==
  /\ ResolveIdle /\ InternIdle /\ VisIdle /\ ParseIdle
  /\ \E a \in RankCandidates, b \in RankCandidates :
       rk = [a |-> a, b |-> b, ra |-> -1, rb |-> -1]

\* the two ranks are computed
ComputeRanks ==
  /\ rk.ra = -1
  /\ rk' = [rk EXCEPT !.ra = RankOfCandidate(rk.a), !.rb = RankOfCandidate(rk.b)]
  /\ UNCHANGED <<resolveVars, internVars, mv, parseVars>>

NextRank == ComputeRanks

SpecRank == InitRank /\ [][NextRank]_vars

ClassOfCandidate(c) ==
  SpecClass(c.is_dso, ~c.in_archive, is_weak(c.esym), is_common(c.esym))

\* C4: the class sits in the bits from 24 upward and the priority below, so
\* that for every pair of candidates the one of the lower class has the lower
\* rank, and priority decides only between candidates of the same class
C4_ClassDominatesPriority ==
  rk.ra # -1 =>
    /\ rk.ra \div RankShift = ClassOfCandidate(rk.a)
    /\ rk.ra % RankShift = rk.a.priority
    /\ ClassOfCandidate(rk.a) < ClassOfCandidate(rk.b) => rk.ra < rk.rb
    /\ ClassOfCandidate(rk.a) = ClassOfCandidate(rk.b) =>
         (rk.ra < rk.rb <=> rk.a.priority < rk.b.priority)

----------------------------------------------------------------------------
(* Properties of tracing *)

\* a tracing pass has ended: no mark_live_objects call runs or is pending
TraceDone == phase = "trace" /\ Quiet

\* the entry i of f is a reference that mark_live_objects of f follows to g
Follows(f, i, g) ==
  LET esym == file[f].elf_syms[i]
      sym == symtab[file[f].symbols[i]] IN
  /\ sym.file = g
  /\ IF file[f].is_dso
     THEN DsoInteresting(file, esym, sym, ctx.allow_shlib_undefined)
     ELSE ObjInteresting(file, esym, sym)

\* C11: feeder is called at most once per file, and only for a file whose
\* is_reachable flag is set; a file that runs ObjectFile::mark_live_objects
\* is reachable (the assertion at the start of the method)
C11_FeederOncePerFile ==
  /\ \A g \in DOMAIN file : fed[g] <= 1 /\ (fed[g] = 1 => is_reachable[g])
  /\ \A f \in DOMAIN file : (pc[f] = "mark" /\ ~file[f].is_dso) => is_reachable[f]

\* C11 witness: tracing has ended; two seed files, an object and a shared
\* object, both hold a reference that mark_live_objects follows to the same
\* file g, and feeder was called once for g
C11_Witness ==
  /\ TraceDone
  /\ \E g \in DOMAIN file :
       /\ fed[g] = 1
       /\ \E f1 \in DOMAIN file, f2 \in DOMAIN file :
            /\ ~file[f1].is_dso /\ file[f2].is_dso
            /\ fed[f1] = 0 /\ fed[f2] = 0
            /\ is_reachable[f1] /\ is_reachable[f2]
            /\ \E i \in Globals(file[f1]) : Follows(f1, i, g)
            /\ \E i \in Globals(file[f2]) : Follows(f2, i, g)

\* an interesting reference of an object, in the words of the specification:
\* the entry is undefined and either not weak or resolved to a DSO, or the
\* entry is common and the current definition of the symbol is not
InterestingRef(f, i) ==
  LET e == file[f].elf_syms[i]
      sym == symtab[file[f].symbols[i]]
      def == file[sym.file].elf_syms[sym.sym_idx] IN
  /\ sym.file # Null
  /\ \/ e.st_shndx = SHN_UNDEF /\ (e.st_bind # STB_WEAK \/ file[sym.file].is_dso)
     \/ e.st_shndx = SHN_COMMON /\ def.st_shndx # SHN_COMMON

\* the file that defines the symbol of entry i of f
DefiningFile(f, i) == symtab[file[f].symbols[i]].file

\* C12: when tracing has finished, the defining file of every interesting
\* reference of every reachable object is reachable
C12_TracingClosed ==
  TraceDone =>
    \A f \in DOMAIN file :
      (is_reachable[f] /\ ~file[f].is_dso) =>
        \A i \in Globals(file[f]) :
          InterestingRef(f, i) => is_reachable[DefiningFile(f, i)]

\* C12 witness: tracing has finished; the object d, a seed, refers to a, which
\* was passed to feeder and refers to b, which was passed to feeder in turn
C12_Witness ==
  /\ TraceDone
  /\ "d" \in DOMAIN file
  /\ fed["a"] = 1 /\ fed["b"] = 1
  /\ \E i \in Globals(file["d"]) : InterestingRef("d", i) /\ DefiningFile("d", i) = "a"
  /\ \E i \in Globals(file["a"]) : InterestingRef("a", i) /\ DefiningFile("a", i) = "b"

\* the object f takes a step of mark_live_objects
MarkStepOf(f) == pc[f] = "mark" /\ ~file[f].is_dso /\ idx'[f] # idx[f]

\* C13: an iteration of ObjectFile::mark_live_objects sets the is_reachable
\* flag of the symbol's defining file if the entry is an interesting
\* reference, and changes no flag otherwise
C13_MarksExactlyInteresting ==
  [][ \A f \in DOMAIN file :
        MarkStepOf(f) =>
          IF InterestingRef(f, idx[f])
          THEN is_reachable' = [is_reachable EXCEPT ![DefiningFile(f, idx[f])] = TRUE]
          ELSE is_reachable' = is_reachable ]_vars

\* C13 witness: tracing has finished; a reachable object holds a weak
\* undefined reference to a definition in an object that is still unreachable
C13_Witness ==
  /\ TraceDone
  /\ \E f \in DOMAIN file :
       \E i \in Globals(file[f]) :
         /\ is_reachable[f] /\ ~file[f].is_dso
         /\ is_undef(file[f].elf_syms[i]) /\ is_weak(file[f].elf_syms[i])
         /\ DefiningFile(f, i) # Null
         /\ ~file[DefiningFile(f, i)].is_dso
         /\ ~is_reachable[DefiningFile(f, i)]

\* the shared object f takes a step of mark_live_objects
MarkSharedStepOf(f) == pc[f] = "mark" /\ file[f].is_dso /\ idx'[f] # idx[f]

\* C14: an iteration of SharedFile::mark_live_objects changes an is_reachable
\* flag only for an entry that is undefined and not weak, and only when
\* allow_shlib_undefined is disabled
C14_DsoTracesOnlyIfDisallowed ==
  [][ \A f \in DOMAIN file :
        (MarkSharedStepOf(f) /\ is_reachable' # is_reachable) =>
          /\ file[f].elf_syms[idx[f]].st_shndx = SHN_UNDEF
          /\ file[f].elf_syms[idx[f]].st_bind # STB_WEAK
          /\ ~ctx.allow_shlib_undefined ]_vars

\* the entry i of the file f is a reference that pulls a file in: an
\* interesting reference of an object, a strong undefined entry of a DSO
PullingRef(f, i) ==
  IF file[f].is_dso
  THEN /\ symtab[file[f].symbols[i]].file # Null
       /\ file[f].elf_syms[i].st_shndx = SHN_UNDEF
       /\ file[f].elf_syms[i].st_bind # STB_WEAK
  ELSE InterestingRef(f, i)

\* some reachable file holds a pulling reference to a symbol defined in g
Referenced(g) ==
  \E f \in DOMAIN file :
    /\ is_reachable[f]
    /\ \E i \in Globals(file[f]) : PullingRef(f, i) /\ DefiningFile(f, i) = g

\* a reachable object refers to a symbol defined in g as strong undefined
StronglyReferenced(g) ==
  \E f \in DOMAIN file :
    /\ is_reachable[f] /\ ~file[f].is_dso
    /\ \E i \in Globals(file[f]) :
         /\ is_undef(file[f].elf_syms[i]) /\ ~is_weak(file[f].elf_syms[i])
         /\ DefiningFile(f, i) = g

\* C15: a file becomes reachable only in a step of a reachable file that holds
\* a pulling reference to a symbol defined in it; when tracing ends, a file
\* that was passed to feeder is referenced from a reachable file, and a file
\* defining a symbol that a reachable object refers to as strong undefined is
\* reachable
C15_MemberReachableIffReferenced ==
  /\ [][ \A g \in DOMAIN file :
           (~is_reachable[g] /\ is_reachable'[g]) =>
             \E f \in DOMAIN file :
               /\ pc[f] = "mark" /\ idx'[f] # idx[f] /\ is_reachable[f]
               /\ PullingRef(f, idx[f]) /\ DefiningFile(f, idx[f]) = g ]_vars
  /\ [](TraceDone =>
          \A g \in DOMAIN file :
            /\ fed[g] = 1 => Referenced(g)
            /\ StronglyReferenced(g) => is_reachable[g])

\* C15 witness: tracing has ended; the object d refers to f as strong
\* undefined, the member a, which defines f, is reachable, and the member b,
\* which defines only g, to which nothing refers, is not
C15_Witness ==
  /\ TraceDone
  /\ "d" \in DOMAIN file
  /\ is_undef(file["d"].elf_syms[1]) /\ ~is_weak(file["d"].elf_syms[1])
  /\ DefiningFile("d", 1) = "a"
  /\ is_reachable["a"] /\ fed["a"] = 1
  /\ ~Referenced("b") /\ ~is_reachable["b"]

----------------------------------------------------------------------------
(* Properties of common symbols *)

\* convert_common_symbols has run for every reachable object
ConvertDone == phase = "convert" /\ Quiet

\* the entries of key k in reachable objects, as <<file, index>>
ReachableObjectEntries(k) ==
  { e \in EntriesOf(k) : is_reachable[e[1]] /\ ~file[e[1]].is_dso }

CommonEntries(k) ==
  { e \in ReachableObjectEntries(k) : is_common(file[e[1]].elf_syms[e[2]]) }

\* the defined, non-common entries of key k in reachable objects
DefinedEntries(k) ==
  { e \in ReachableObjectEntries(k) :
      ~is_undef(file[e[1]].elf_syms[e[2]]) /\ ~is_common(file[e[1]].elf_syms[e[2]]) }

\* the symbol k is resolved to one of the entries es, its section is that
\* entry's section, and no file has made a common section for it
ResolvedToOneOf(k, es) ==
  /\ \E e \in es : FromEntry(k, e)
  /\ symtab[k].origin.kind = "isec" =>
       file[symtab[k].origin.file].sections[symtab[k].origin.shndx] # "common"

\* C16 as stated: where a reachable object holds a common entry and a
\* reachable object a defined entry of the same name, the symbol ends with the
\* defined entry and its section, not with a common section
C16_DefinedBeatsCommon ==
  ConvertDone =>
    \A k \in DOMAIN symtab :
      (CommonEntries(k) # {} /\ DefinedEntries(k) # {}) =>
        ResolvedToOneOf(k, DefinedEntries(k))

\* C16 amended: the same, for a defined entry that resolve_symbols does not
\* pass over (absolute, or in a kept and alive section)
C16_LiveDefinedBeatsCommon ==
  ConvertDone =>
    \A k \in DOMAIN symtab :
      (CommonEntries(k) # {} /\ DefinedEntries(k) \cap LiveDefinitions(k) # {}) =>
        ResolvedToOneOf(k, DefinedEntries(k) \cap LiveDefinitions(k))

\* C16 witness: the conversion is over; the object a holds a common entry of
\* f and comes first, the reachable object b holds a live defined entry of f,
\* and a has run convert_common_symbols over its common entry
C16_Witness ==
  /\ ConvertDone
  /\ <<"a", 1>> \in CommonEntries(S_f)
  /\ <<"b", 1>> \in DefinedEntries(S_f) \cap LiveDefinitions(S_f)
  /\ file["a"].priority < file["b"].priority
  /\ idx["a"] = Size(file["a"].elf_syms)

----------------------------------------------------------------------------
(* Properties of versioned default symbols *)

\* entry i of the shared object f has a default version: it is bound to the
\* name and to name@version
DefaultVersioned(f, i) ==
  /\ file[f].is_dso
  /\ file[f].symbols2[i] # NullSym
  /\ file[f].symbols2[i] # file[f].symbols[i]

\* no file but f defines the name or name@version of entry i of f
OnlyDefiner(f, i) ==
  \A e \in Definitions(file[f].symbols[i]) \cup Definitions(file[f].symbols2[i]) :
    e[1] = f

\* the name and name@version of entry i of f are interned, both resolved to
\* f, and the alias refers to the base symbol
BothBound(f, i) ==
  LET key == file[f].symbols[i]
      key2 == file[f].symbols2[i] IN
  /\ key \in DOMAIN symtab /\ key2 \in DOMAIN symtab
  /\ key2 = key \o <<"@">> \o VersionStrings[file[f].versyms[i]]
  /\ symtab[key].file = f /\ symtab[key].sym_idx = i
  /\ symtab[key2].file = f /\ symtab[key2].sym_idx = i
  /\ symtab[key2].origin = [kind |-> "sym", file |-> Null, shndx |-> 0, key |-> key]
  /\ symtab[key2].is_versioned_default

\* C17 as stated: after parse and resolve_symbols, the name and name@version
\* of a default-versioned entry that no other file defines are both resolved
\* to the DSO, the alias with origin = the base symbol and
\* is_versioned_default
C17_DefaultVersionBound ==
  PassDone =>
    \A f \in DOMAIN file :
      \A i \in Globals(file[f]) :
        (DefaultVersioned(f, i) /\ OnlyDefiner(f, i)) => BothBound(f, i)

\* C17 amended: the same, for a base symbol that is not skip_dso
C17_DefaultVersionBoundUnlessSkipped ==
  PassDone =>
    \A f \in DOMAIN file :
      \A i \in Globals(file[f]) :
        (DefaultVersioned(f, i) /\ OnlyDefiner(f, i)
           /\ ~symtab[file[f].symbols[i]].skip_dso) => BothBound(f, i)

\* C17 witness: a pass has ended; the shared object s exports f@@v, nothing
\* else defines f or f@v, an object refers to one of them, and both symbols
\* are resolved to s
C17_Witness ==
  /\ PassDone
  /\ "s" \in DOMAIN file /\ "t" \in DOMAIN file
  /\ DefaultVersioned("s", 0) /\ OnlyDefiner("s", 0)
  /\ is_undef(file["a"].elf_syms[1])
  /\ BothBound("s", 0)

\* the rank of the current definition of the symbol k
SpecSymRank(k) ==
  IF symtab[k].file = Null THEN 7 * RankShift
  ELSE SpecRankOf(symtab[k].file, symtab[k].sym_idx)

\* the shared object f ends the comparison for the alias of its entry
AliasComparedBy(f) == pc[f] = "lock2" /\ pc'[f] # "lock2"

\* the shared object f writes the alias of its entry
AliasWrittenBy(f) == pc[f] = "writeAlias" /\ pc'[f] # "writeAlias"

\* the alias of the entry of f is given the four fields, and nothing else
\* of it changes
AliasOverwritten(f) ==
  LET i == idx[f]
      key == file[f].symbols[i]
      key2 == file[f].symbols2[i] IN
  symtab' = [symtab EXCEPT ![key2] =
               [@ EXCEPT !.file = f,
                         !.origin = [kind |-> "sym", file |-> Null, shndx |-> 0,
                                     key |-> key],
                         !.sym_idx = i,
                         !.is_versioned_default = TRUE]]

\* C18 as stated: the alias is overwritten only if the DSO's definition is
\* the winning definition of the base symbol, and only if the DSO's rank is
\* strictly less than the rank of the alias
C18_AliasOnlyIfBaseWon ==
  [][ \A f \in DOMAIN file :
        (AliasComparedBy(f) /\ pc'[f] = "writeAlias") =>
          /\ symtab[file[f].symbols[idx[f]]].file = f
          /\ symtab[file[f].symbols[idx[f]]].sym_idx = idx[f]
          /\ SpecRankOf(f, idx[f]) < SpecSymRank(file[f].symbols2[idx[f]]) ]_vars

\* C18 amended: whether or not the DSO's definition is the winning definition
\* of the base symbol, the alias is overwritten, with the four fields, exactly
\* if the DSO's rank is strictly less than the rank of the alias
C18_AliasIffOutranks ==
  [][ \A f \in DOMAIN file :
        /\ AliasComparedBy(f) =>
             /\ pc'[f] = "writeAlias" <=>
                  SpecRankOf(f, idx[f]) < SpecSymRank(file[f].symbols2[idx[f]])
             /\ symtab' = symtab
        /\ AliasWrittenBy(f) => AliasOverwritten(f) ]_vars

\* C18 witness: a pass has ended; the shared object t has won the name f,
\* and the shared object s, which has lost it, has won the alias f@v
C18_Witness ==
  /\ PassDone
  /\ S_fv \in DOMAIN symtab
  /\ symtab[S_f].file = "t"
  /\ symtab[S_fv].file = "s" /\ symtab[S_fv].is_versioned_default
  /\ symtab[S_fv].origin.key = S_f

----------------------------------------------------------------------------
(* merge_visibility calls of several threads on one symbol *)

Visibilities == {STV_DEFAULT, STV_INTERNAL, STV_HIDDEN, STV_PROTECTED}

\* the visibilities a symbol can have: STV_DEFAULT when it is created, and
\* what merge_visibility stores
StoredVisibilities == {STV_DEFAULT, STV_HIDDEN, STV_PROTECTED}

\* the sequences of at most n visibilities
VisSeqs(n) == UNION { [1..m -> Visibilities] : m \in 0..n }

InitVis ==
  /\ ResolveIdle /\ InternIdle /\ RankIdle /\ ParseIdle
  /\ \E v \in StoredVisibilities, todo \in [Callers -> VisSeqs(MaxMerges)] :
       mv = [init |-> v, vis |-> v, todo |-> todo, merged |-> {}]

\* the thread t calls merge_visibility with the next of its visibilities;
\* update_minimum updates the atomic sym.visibility in one step
MergeVisibility(t) ==
  /\ mv.todo[t] # <<>>
  /\ mv' = [mv EXCEPT !.vis = merge_visibility(mv.vis, Head(mv.todo[t])),
                      !.todo[t] = Tail(mv.todo[t]),
                      !.merged = mv.merged \cup {Head(mv.todo[t])}]
  /\ UNCHANGED <<resolveVars, internVars, rk, parseVars>>

NextVis == \E t \in Callers : MergeVisibility(t)

SpecVis == InitVis /\ [][NextVis]_vars

\* the order of the specification: HIDDEN < PROTECTED < DEFAULT, with
\* STV_INTERNAL counted as HIDDEN
Restrictiveness(v) ==
  IF v \in {STV_HIDDEN, STV_INTERNAL} THEN 1
  ELSE IF v = STV_PROTECTED THEN 2 ELSE 3

\* the most restrictive visibility of a set, STV_INTERNAL given as STV_HIDDEN
MostRestrictive(vs) ==
  LET stored == { IF v = STV_INTERNAL THEN STV_HIDDEN ELSE v : v \in vs } IN
  CHOOSE v \in stored : \A w \in stored : Restrictiveness(v) <= Restrictiveness(w)

\* C19: after any sequence or interleaving of merge_visibility calls the
\* visibility of the symbol is the most restrictive of its initial visibility
\* and all merged visibilities, whatever the order of the calls
C19_VisibilityIsMinimum == mv.vis = MostRestrictive({mv.init} \cup mv.merged)

\* C19 witness: both threads have made all their calls; STV_PROTECTED and
\* STV_INTERNAL were merged into a symbol of default visibility, which is now
\* hidden
C19_Witness ==
  /\ \A t \in Callers : mv.todo[t] = <<>>
  /\ mv.init = STV_DEFAULT
  /\ {STV_PROTECTED, STV_INTERNAL} \subseteq mv.merged
  /\ mv.vis = STV_HIDDEN

----------------------------------------------------------------------------
(* Properties of exclude_libs *)

\* the symbol of the entry that mark_live_objects of f visits next
VisitedKey(f) == file[f].symbols[idx[f]]

\* C20 as stated: an iteration of mark_live_objects of an object excluded by
\* exclude_libs leaves the symbol of the visited entry hidden, whatever the
\* entry is
C20_ExcludedMergesHidden ==
  [][ \A f \in DOMAIN file :
        MarkStepOf(f) /\ file[f].exclude_libs =>
          symtab'[VisitedKey(f)].visibility = STV_HIDDEN ]_vars

\* C20: an iteration of mark_live_objects of an object excluded by
\* exclude_libs leaves the symbol of the visited entry hidden if the entry is
\* not undefined; an undefined entry is merged with its own st_visibility
C20_ExcludedDefinitionsMergeHidden ==
  [][ \A f \in DOMAIN file :
        MarkStepOf(f) /\ file[f].exclude_libs =>
          LET esym == file[f].elf_syms[idx[f]] IN
          symtab'[VisitedKey(f)].visibility =
            IF ~is_undef(esym) THEN STV_HIDDEN
            ELSE MostRestrictive({symtab[VisitedKey(f)].visibility,
                                  esym.st_visibility}) ]_vars

\* C20 witness: an excluded object was traced to its end; a symbol it defines
\* with a visibility other than hidden is hidden, and a symbol it refers to
\* with protected visibility is protected
C20_Witness ==
  \E f \in DOMAIN file :
    /\ ~file[f].is_dso /\ file[f].exclude_libs /\ pc[f] = "done"
    /\ \E i \in Globals(file[f]) :
         /\ ~is_undef(file[f].elf_syms[i])
         /\ file[f].elf_syms[i].st_visibility # STV_HIDDEN
         /\ symtab[file[f].symbols[i]].visibility = STV_HIDDEN
    /\ \E i \in Globals(file[f]) :
         /\ is_undef(file[f].elf_syms[i])
         /\ file[f].elf_syms[i].st_visibility = STV_PROTECTED
         /\ symtab[file[f].symbols[i]].visibility = STV_PROTECTED

----------------------------------------------------------------------------
(* ObjectFile::parse and ObjectFile::initialize_symbols of one object file *)

STT_NOTYPE == 0
STT_SECTION == 3

S_real == <<"_", "_", "r", "e", "a", "l", "_">>
S_wrap == <<"_", "_", "w", "r", "a", "p", "_">>
S_text == <<"t">>

\* the file being parsed
This == "o"

\* a symbol table entry with its type
TypedEsym(name, type, shndx, value) ==
  [st_name |-> name, st_bind |-> STB_GLOBAL, st_type |-> type,
   st_shndx |-> shndx, st_value |-> value, st_visibility |-> STV_DEFAULT]

\* the strings of the symbol table entries
EntryStrings ==
  { S_f, S_real \o S_f, S_real \o S_g, S_wrap \o S_f,
    S_f \o <<"@">>, S_f \o <<"@", "@">>, S_fv, S_f \o <<"@", "@">> \o S_v,
    <<"@">> \o S_v }

\* the entries a symbol table of the model is made of
TableEntries ==
  { TypedEsym(str, STT_NOTYPE, shndx, 5) :
      str \in EntryStrings, shndx \in {SHN_UNDEF, 1} }
  \cup { TypedEsym(S_f, STT_NOTYPE, SHN_COMMON, 5),
         TypedEsym(<<>>, STT_SECTION, 1, 0) }

NullEntry == TypedEsym(<<>>, STT_NOTYPE, SHN_UNDEF, 0)

\* the symbol tables: the null entry and up to n more entries
SymbolTables(n) ==
  { Z(<<NullEntry>> \o t) : t \in UNION { [1..m -> TableEntries] : m \in 0..n } }

\* ctx.arg.wrap
WrapSets == { {}, {S_f} }

\* the symbol of --wrap=NAME has is_wrapped set before the files are parsed
is_wrapped(wrap, key) == key \in wrap

\* what symbols[i] points at
LocalRef(i) == [kind |-> "local", at |-> i]
GlobalRef(addr) == [kind |-> "global", at |-> addr]

InitParse ==
  /\ ResolveIdle /\ InternIdle /\ RankIdle /\ VisIdle
  /\ DsoIdle /\ MrgIdle /\ CrelIdle /\ HdrIdle /\ LateIdle
  /\ \E has_symtab \in BOOLEAN, tab \in SymbolTables(MaxSyms), wrap \in WrapSets :
       \E sh_info \in 0..Size(tab) :
         /\ ~has_symtab => (Size(tab) = 1 /\ sh_info = 0)
         /\ objfile = [pc |-> "parse", has_symtab |-> has_symtab,
                       symtab_data |-> tab, sh_info |-> sh_info, wrap |-> wrap,
                       section_names |-> <<S_text>>,
                       first_global |-> 0, elf_syms |-> <<>>,
                       local_syms |-> <<>>, symbols |-> <<>>,
                       has_symver |-> <<>>, i |-> 0,
                       map |-> <<>>, heap |-> <<>>]

ParseVarsUnchanged ==
  UNCHANGED <<resolveVars, internVars, rk, mv, sofile, pieces, crel, mapped, lateVars>>

\* ObjectFile::parse up to the call of initialize_symbols
ParseObject ==
  /\ objfile.pc = "parse"
  /\ objfile' = [objfile EXCEPT
       !.first_global = IF objfile.has_symtab THEN objfile.sh_info ELSE 0,
       !.elf_syms = IF objfile.has_symtab THEN objfile.symtab_data ELSE <<>>,
       !.pc = "locals"]
  /\ ParseVarsUnchanged

\* initialize_symbols: local symbol i
LocalSymbol(o, i) ==
  LET esym == o.elf_syms[i]
      name == IF esym.st_type = STT_SECTION
              THEN o.section_names[esym.st_shndx] ELSE esym.st_name IN
  [NewSymbol(name) EXCEPT
     !.file = This, !.value = esym.st_value, !.sym_idx = i,
     !.origin = IF is_abs(esym) THEN NoOrigin ELSE SectionOrigin(This, esym.st_shndx)]

\* initialize_symbols up to the loop over the global symbols, without the
\* write to local_syms[0]
LocalsInitialized(o) ==
  LET n == Size(o.elf_syms) IN
  [o EXCEPT
     !.local_syms = [i \in 0..(o.first_global - 1) |->
                       IF i = 0
                       THEN [NewSymbol(<<>>) EXCEPT !.file = This, !.sym_idx = 0]
                       ELSE LocalSymbol(o, i)],
     !.symbols = [i \in 0..(n - 1) |->
                    IF i < o.first_global THEN LocalRef(i) ELSE NullSym],
     !.has_symver = [i \in 0..(n - o.first_global - 1) |-> FALSE],
     !.i = o.first_global,
     !.pc = IF o.first_global >= n THEN "done" ELSE "globals"]

\* initialize_symbols, the part for the local symbols
InitializeLocals ==
  /\ objfile.pc = "locals"
  /\ Size(objfile.elf_syms) = 0 \/ objfile.first_global > 0
  /\ objfile' =
       IF Size(objfile.elf_syms) = 0 THEN [objfile EXCEPT !.pc = "done"]
       ELSE IF \E i \in 1..(objfile.first_global - 1) : is_common(objfile.elf_syms[i])
            THEN [objfile EXCEPT !.pc = "fatal"]
            ELSE LocalsInitialized(objfile)
  /\ ParseVarsUnchanged

\* initialize_symbols with first_global = 0: local_syms is resized to no
\* element and local_syms[0] is written, which is outside the vector; the
\* write either faults or lands in memory that is not the file's
InitializeLocalsOutOfBounds ==
  /\ objfile.pc = "locals"
  /\ Size(objfile.elf_syms) > 0 /\ objfile.first_global = 0
  /\ \E faults \in BOOLEAN :
       objfile' = IF faults THEN [objfile EXCEPT !.pc = "crashed"]
                  ELSE LocalsInitialized(objfile)
  /\ ParseVarsUnchanged

\* mutant: a defined entry is rewritten like an undefined one
WrapCase_Defined(wrap, esym, key, name) ==
  IF StartsWith(name, S_real) /\ Suffix(name, 7) \in wrap
  THEN "real"
  ELSE IF is_wrapped(wrap, key) THEN "wrap" ELSE "plain"

\* the --wrap case of a global entry
WrapCase(wrap, esym, key, name) ==
  IF is_undef(esym) /\ StartsWith(name, S_real) /\ Suffix(name, 7) \in wrap
  THEN "real"
  ELSE IF is_undef(esym) /\ is_wrapped(wrap, key) THEN "wrap" ELSE "plain"

\* initialize_symbols, one iteration of the loop over the global symbols
InitializeGlobal ==
  LET o == objfile
      i == o.i
      esym == o.elf_syms[i]
      kn == ObjKeyName(esym.st_name)
      case == WrapCase(o.wrap, esym, kn.key, kn.name)
      first == IF case = "real"
               THEN MapInsert(o.map, o.heap, Suffix(kn.key, 7), Suffix(kn.name, 7))
               ELSE MapInsert(o.map, o.heap, kn.key, kn.name)
      last == IF case = "wrap"
              THEN MapInsert(first.map, first.heap, S_wrap \o kn.key, S_wrap \o kn.name)
              ELSE first IN
  /\ o.pc = "globals"
  /\ objfile' = [o EXCEPT
       !.has_symver[i - o.first_global] = kn.has_symver,
       !.map = last.map, !.heap = last.heap,
       !.symbols[i] = GlobalRef(last.acc),
       !.i = i + 1,
       !.pc = IF i + 1 >= Size(o.elf_syms) THEN "done" ELSE "globals"]
  /\ ParseVarsUnchanged

NextParse ==
  \/ ParseObject
  \/ InitializeLocals
  \/ InitializeLocalsOutOfBounds
  \/ InitializeGlobal

SpecParse == InitParse /\ [][NextParse]_vars

----------------------------------------------------------------------------
(* Properties of initialize_symbols *)

\* the global entries initialize_symbols has bound so far
BoundGlobals ==
  IF objfile.pc \in {"globals", "done"} /\ Size(objfile.elf_syms) > 0
  THEN objfile.first_global..(objfile.i - 1) ELSE {}

\* the key under which the symbol of entry i is interned
BoundKey(i) ==
  CHOOSE k \in DOMAIN objfile.map : objfile.map[k] = objfile.symbols[i].at

\* the symbol of entry i
BoundSymbol(i) == objfile.heap[objfile.symbols[i].at]

Unversioned(str) == Find(str, "@") = -1

\* the symbol name the wrap rules give an entry with the string str
WrapTarget(wrap, esym, str) ==
  IF is_undef(esym) /\ str \in wrap THEN S_wrap \o str
  ELSE IF is_undef(esym) /\ \E w \in wrap : str = S_real \o w
       THEN CHOOSE w \in wrap : str = S_real \o w
       ELSE str

\* C21: an undefined global entry named FOO, with FOO in the wrap set, is
\* bound to the symbol __wrap_FOO, an undefined entry named __real_FOO to the
\* symbol FOO, and every other entry (a name not in the wrap set, or a defined
\* entry) to the symbol of its own name
C21_WrapRewriting ==
  \A i \in BoundGlobals :
    LET esym == objfile.elf_syms[i] IN
    Unversioned(esym.st_name) =>
      /\ BoundKey(i) = WrapTarget(objfile.wrap, esym, esym.st_name)
      /\ BoundSymbol(i).name = WrapTarget(objfile.wrap, esym, esym.st_name)

\* C21 witness: with f in the wrap set, a file with an undefined entry f and
\* an undefined entry __real_f is parsed to its end: the first is bound to
\* __wrap_f and the second to f
C21_Witness ==
  /\ objfile.pc = "done" /\ objfile.wrap = {S_f}
  /\ \E i, j \in BoundGlobals :
       /\ is_undef(objfile.elf_syms[i]) /\ objfile.elf_syms[i].st_name = S_f
       /\ BoundKey(i) = S_wrap \o S_f
       /\ is_undef(objfile.elf_syms[j]) /\ objfile.elf_syms[j].st_name = S_real \o S_f
       /\ BoundKey(j) = S_f

\* the key, the name and the has_symver flag the specification gives a string
SpecKeyName(str) ==
  LET pos == Find(str, "@") IN
  IF pos = -1 THEN [key |-> str, name |-> str, has_symver |-> FALSE]
  ELSE LET name == SubSeq(str, 1, pos)
           ver == SubSeq(str, pos + 1, Len(str)) IN
       IF ver \in {<<"@">>, <<"@", "@">>}
       THEN [key |-> name, name |-> name, has_symver |-> FALSE]
       ELSE IF Len(ver) >= 2 /\ ver[2] = "@"
            THEN [key |-> name, name |-> name, has_symver |-> TRUE]
            ELSE [key |-> str, name |-> name, has_symver |-> TRUE]

\* C22: without --wrap, a global entry NAME@ or NAME@@ is interned and named
\* as NAME without has_symver, NAME@@VERSION is interned under NAME with
\* has_symver, any other NAME@VERSION under the full string with the name
\* NAME and has_symver, and a string without atsign under itself
C22_VersionSuffixParsing ==
  objfile.wrap = {} =>
    \A i \in BoundGlobals :
      LET kn == SpecKeyName(objfile.elf_syms[i].st_name) IN
      /\ BoundKey(i) = kn.key
      /\ BoundSymbol(i).name = kn.name
      /\ objfile.has_symver[i - objfile.first_global] = kn.has_symver

\* C30: ObjectFile::parse does not fault, and after it symbols has as many
\* entries as the symbol table, none null: below first_global the file's own
\* local symbol i (file, sym_idx and value of entry i), from first_global on
\* a symbol of the interner; without a symbol table there are no symbols
C30_ParseYieldsAllSymbols ==
  /\ objfile.pc # "crashed"
  /\ objfile.pc = "done" =>
       LET n == Size(objfile.elf_syms) IN
       /\ ~objfile.has_symtab => Size(objfile.symbols) = 0
       /\ Size(objfile.symbols) = n
       /\ \A i \in 0..(n - 1) :
            IF i < objfile.first_global
            THEN /\ objfile.symbols[i] = LocalRef(i)
                 /\ objfile.local_syms[i].file = This
                 /\ objfile.local_syms[i].sym_idx = i
                 /\ objfile.local_syms[i].value = objfile.elf_syms[i].st_value
            ELSE /\ objfile.symbols[i] # NullSym
                 /\ objfile.symbols[i].kind = "global"
                 /\ objfile.symbols[i].at \in DOMAIN objfile.heap

----------------------------------------------------------------------------
(* SharedFile::parse of one shared object *)

\* the dynamic symbol tables: the null entry and up to n more entries
DynsymTables(n) ==
  { Z(<<NullEsym>> \o t) :
      t \in UNION { [1..m -> { Esym(S_f, STB_GLOBAL, SHN_UNDEF, 0, STV_DEFAULT),
                                Esym(S_f, STB_GLOBAL, 1, 11, STV_DEFAULT),
                                Esym(S_g, STB_WEAK, 1, 21, STV_DEFAULT) }] :
                    m \in 0..n } }

\* the entries of a versym table
VersymValues ==
  { VER_NDX_LOCAL, VER_NDX_GLOBAL, 2,
    VERSYM_HIDDEN + VER_NDX_LOCAL, VERSYM_HIDDEN + VER_NDX_GLOBAL, VERSYM_HIDDEN + 2 }

InitDso ==
  /\ ResolveIdle /\ InternIdle /\ RankIdle /\ VisIdle
  /\ ObjIdle /\ MrgIdle /\ CrelIdle /\ HdrIdle /\ LateIdle
  /\ \E has_dynsym \in BOOLEAN, esyms \in DynsymTables(MaxDynsyms) :
       \E sh_info \in 1..Size(esyms),
          vers \in {<<>>} \cup [DOMAIN esyms -> VersymValues] :
         /\ ~has_dynsym => (Size(esyms) = 1 /\ vers = <<>>)
         /\ sofile = [pc |-> "parse", has_dynsym |-> has_dynsym, esyms |-> esyms,
                      sh_info |-> sh_info, vers |-> vers,
                      elf_syms |-> <<>>, versyms |-> <<>>, symbols |-> <<>>,
                      symbols2 |-> <<>>, first_global |-> 0]

\* SharedFile::parse
ParseShared ==
  LET f == SharedFile(0, sofile.esyms, sofile.sh_info, sofile.vers, VersionStrings) IN
  /\ sofile.pc = "parse"
  /\ sofile' =
       IF ~sofile.has_dynsym THEN [sofile EXCEPT !.pc = "done"]
       ELSE [sofile EXCEPT !.pc = "done",
               !.elf_syms = f.elf_syms, !.versyms = f.versyms,
               !.symbols = f.symbols, !.symbols2 = f.symbols2,
               !.first_global = f.first_global]
  /\ UNCHANGED <<resolveVars, internVars, rk, mv, objfile, pieces, crel, mapped,
               lateVars>>

NextDso == ParseShared

SpecDso == InitDso /\ [][NextDso]_vars

----------------------------------------------------------------------------
(* Properties of SharedFile::parse *)

\* the version of the dynamic symbol i as the specification gives it
SpecVersion(i) ==
  IF sofile.vers = <<>> \/ sofile.esyms[i].st_shndx = SHN_UNDEF
  THEN VER_NDX_GLOBAL
  ELSE sofile.vers[i] % VERSYM_HIDDEN

\* the dynamic symbols that are not skipped
KeptSymbols ==
  IF sofile.has_dynsym
  THEN { i \in sofile.sh_info..(Size(sofile.esyms) - 1) : SpecVersion(i) # VER_NDX_LOCAL }
  ELSE {}

\* the position of the kept dynamic symbol i in the parsed tables
PositionOf(i) == Cardinality({ j \in KeptSymbols : j < i })

\* the two bindings of the dynamic symbol i: the key in symbols and the key
\* in symbols2 (or none)
SpecBindings(i) ==
  LET name == sofile.esyms[i].st_name
      versioned == name \o <<"@">> \o VersionStrings[SpecVersion(i)] IN
  IF SpecVersion(i) = VER_NDX_GLOBAL THEN <<name, NullSym>>
  ELSE IF sofile.vers[i] >= VERSYM_HIDDEN THEN <<versioned, NullSym>>
       ELSE <<name, versioned>>

\* C29: after SharedFile::parse the four tables have one entry for every
\* dynamic symbol from sh_info on whose version is not VER_NDX_LOCAL, in
\* order: unversioned, undefined and VER_NDX_GLOBAL symbols are bound to the
\* bare name only, VERSYM_HIDDEN symbols to name@VERSION only, default
\* versioned symbols to the bare name and, in symbols2, to name@VERSION
C29_DsoBindings ==
  sofile.pc = "done" =>
    /\ Size(sofile.elf_syms) = Cardinality(KeptSymbols)
    /\ Size(sofile.versyms) = Cardinality(KeptSymbols)
    /\ Size(sofile.symbols) = Cardinality(KeptSymbols)
    /\ Size(sofile.symbols2) = Cardinality(KeptSymbols)
    /\ \A i \in KeptSymbols :
         LET k == PositionOf(i) IN
         /\ sofile.elf_syms[k] = sofile.esyms[i]
         /\ sofile.versyms[k] = SpecVersion(i)
         /\ sofile.symbols[k] = SpecBindings(i)[1]
         /\ sofile.symbols2[k] = SpecBindings(i)[2]

\* C29 witness: a shared object is parsed whose first dynamic symbol is
\* local and skipped and whose second is a default versioned symbol, which
\* has both bindings at position 0
C29_Witness ==
  /\ sofile.pc = "done" /\ sofile.has_dynsym
  /\ Size(sofile.esyms) = 3 /\ sofile.sh_info = 1 /\ sofile.vers # <<>>
  /\ 1 \notin KeptSymbols /\ 2 \in KeptSymbols
  /\ sofile.symbols[0] = S_f /\ sofile.symbols2[0] = S_fv

----------------------------------------------------------------------------
(* InputFile::InputFile: the header of a mapped file *)

\* sizeof(ElfEhdr<E>) and sizeof(ElfShdr<E>) of a 64-bit target
EhdrSize == 64
ShdrSize == 64
SHN_XINDEX == 65535

\* the sizes and the section header offsets of the model are multiples of
\* the header size (but for one file that is too small), so that a section
\* header lies wholly inside or wholly outside the buffer
FileSizes == {0, EhdrSize - 1, EhdrSize, EhdrSize + ShdrSize, EhdrSize + 2 * ShdrSize}
SectionOffsets == { EhdrSize + k * ShdrSize : k \in 0..MaxSections }

\* a byte range [lo, hi) and whether it lies inside a buffer of the given size
Range(lo, len) == <<lo, lo + len>>
InBuffer(size, r) == 0 <= r[1] /\ r[2] <= size

\* the header of section i
ShdrRange(m, i) == Range(m.e_shoff + i * ShdrSize, ShdrSize)

InitHeader ==
  /\ ResolveIdle /\ InternIdle /\ RankIdle /\ VisIdle
  /\ ObjIdle /\ DsoIdle /\ MrgIdle /\ CrelIdle /\ LateIdle
  /\ \E size \in FileSizes, magic \in BOOLEAN, e_shoff \in SectionOffsets,
        e_shnum \in 0..MaxSections, e_shstrndx \in {0, 1, SHN_XINDEX},
        sh_size \in {0, 2, MaxSections}, sh_link \in {0, 1},
        strtab_in_range \in BOOLEAN :
       mapped = [pc |-> "ehdr", size |-> size, magic |-> magic,
                 e_shoff |-> e_shoff, e_shnum |-> e_shnum,
                 e_shstrndx |-> e_shstrndx,
                 sec0 |-> [sh_size |-> sh_size, sh_link |-> sh_link],
                 strtab_in_range |-> strtab_in_range,
                 num_sections |-> 0, shstrtab_idx |-> 0, reads |-> {}]

HeaderVarsUnchanged ==
  UNCHANGED <<resolveVars, internVars, rk, mv, objfile, sofile, pieces, crel, lateVars>>

\* the checks of the size and of the magic number
CheckEhdr ==
  /\ mapped.pc = "ehdr"
  /\ mapped' =
       IF mapped.size < EhdrSize THEN [mapped EXCEPT !.pc = "fatal"]
       ELSE IF ~mapped.magic
            THEN [mapped EXCEPT !.pc = "fatal", !.reads = @ \cup {Range(0, 4)}]
            ELSE [mapped EXCEPT !.pc = "shnum",
                                !.reads = @ \cup {Range(0, 4), Range(0, EhdrSize)}]
  /\ HeaderVarsUnchanged

\* a field of section[0] is read if the header field holds the special value
ReadsSection0(field, special) == field = special

\* num_sections = (ehdr.e_shnum == 0) ? sh_begin->sh_size : ehdr.e_shnum,
\* with section[0] inside the buffer or not read
ReadSectionCount ==
  LET reads0 == ReadsSection0(mapped.e_shnum, 0) IN
  /\ mapped.pc = "shnum"
  /\ reads0 => InBuffer(mapped.size, ShdrRange(mapped, 0))
  /\ mapped' = [mapped EXCEPT
       !.num_sections = IF reads0 THEN mapped.sec0.sh_size ELSE mapped.e_shnum,
       !.reads = IF reads0 THEN @ \cup {ShdrRange(mapped, 0)} ELSE @,
       !.pc = "check"]
  /\ HeaderVarsUnchanged

\* the same with section[0] outside the buffer: the read faults or yields
\* whatever lies there
ReadSectionCountOutOfBounds ==
  /\ mapped.pc = "shnum"
  /\ ReadsSection0(mapped.e_shnum, 0)
  /\ ~InBuffer(mapped.size, ShdrRange(mapped, 0))
  /\ \E faults \in BOOLEAN, v \in {0, 1} :
       mapped' = [mapped EXCEPT
         !.reads = @ \cup {ShdrRange(mapped, 0)},
         !.num_sections = IF faults THEN @ ELSE v,
         !.pc = IF faults THEN "crashed" ELSE "check"]
  /\ HeaderVarsUnchanged

\* !(mf->data + mf->size < (u8 *)(sh_begin + num_sections))
TableInside(size, e_shoff, num_sections) ==
  ~(size < e_shoff + num_sections * ShdrSize)

\* the check of the section header table
CheckSectionTable ==
  /\ mapped.pc = "check"
  /\ mapped' = [mapped EXCEPT
       !.pc = IF TableInside(mapped.size, mapped.e_shoff, mapped.num_sections)
              THEN "shstrndx" ELSE "fatal"]
  /\ HeaderVarsUnchanged

\* shstrtab_idx = (ehdr.e_shstrndx == SHN_XINDEX) ? sh_begin->sh_link
\* : ehdr.e_shstrndx, with section[0] inside the buffer or not read
ReadShstrtabIndex ==
  LET reads0 == ReadsSection0(mapped.e_shstrndx, SHN_XINDEX) IN
  /\ mapped.pc = "shstrndx"
  /\ reads0 => InBuffer(mapped.size, ShdrRange(mapped, 0))
  /\ mapped' = [mapped EXCEPT
       !.shstrtab_idx = IF reads0 THEN mapped.sec0.sh_link ELSE mapped.e_shstrndx,
       !.reads = IF reads0 THEN @ \cup {ShdrRange(mapped, 0)} ELSE @,
       !.pc = "shstrtab"]
  /\ HeaderVarsUnchanged

\* the same with section[0] outside the buffer
ReadShstrtabIndexOutOfBounds ==
  /\ mapped.pc = "shstrndx"
  /\ ReadsSection0(mapped.e_shstrndx, SHN_XINDEX)
  /\ ~InBuffer(mapped.size, ShdrRange(mapped, 0))
  /\ \E faults \in BOOLEAN, v \in {0, 1} :
       mapped' = [mapped EXCEPT
         !.reads = @ \cup {ShdrRange(mapped, 0)},
         !.shstrtab_idx = IF faults THEN @ ELSE v,
         !.pc = IF faults THEN "crashed" ELSE "shstrtab"]
  /\ HeaderVarsUnchanged

\* shstrtab = this->get_string(ctx, shstrtab_idx): the index is compared with
\* the number of sections and the end of the string table with the size of
\* the buffer; no byte of the string table is read
GetShstrtab ==
  /\ mapped.pc = "shstrtab"
  /\ mapped' =
       IF mapped.num_sections <= mapped.shstrtab_idx
       THEN [mapped EXCEPT !.pc = "fatal"]
       ELSE [mapped EXCEPT
               !.reads = @ \cup {ShdrRange(mapped, mapped.shstrtab_idx)},
               !.pc = IF mapped.strtab_in_range THEN "done" ELSE "fatal"]
  /\ HeaderVarsUnchanged

NextHeader ==
  \/ CheckEhdr
  \/ ReadSectionCount
  \/ ReadSectionCountOutOfBounds
  \/ CheckSectionTable
  \/ ReadShstrtabIndex
  \/ ReadShstrtabIndexOutOfBounds
  \/ GetShstrtab

SpecHeader == InitHeader /\ [][NextHeader]_vars

----------------------------------------------------------------------------
(* Properties of the InputFile constructor *)

\* C28: the constructor reads no byte outside the mapped buffer, and it
\* finishes only for a file whose section header table ends inside the buffer
C28_NoReadOutsideBuffer ==
  /\ mapped.pc # "crashed"
  /\ \A r \in mapped.reads : InBuffer(mapped.size, r)
  /\ mapped.pc = "done" =>
       mapped.e_shoff + mapped.num_sections * ShdrSize <= mapped.size

----------------------------------------------------------------------------
(* decode_crel: a CREL relocation table is encoded and decoded *)

RECURSIVE Pow2(_)
Pow2(k) == IF k = 0 THEN 1 ELSE 2 * Pow2(k - 1)

\* the ULEB128 and SLEB128 encodings of a value, as bytes
RECURSIVE EncodeUleb(_)
EncodeUleb(v) ==
  IF v < 128 THEN <<v>> ELSE <<128 + (v % 128)>> \o EncodeUleb(v \div 128)

RECURSIVE EncodeSleb(_)
EncodeSleb(v) ==
  LET b == v % 128
      rest == (v - b) \div 128 IN
  IF (rest = 0 /\ b < 64) \/ (rest = -1 /\ b >= 64)
  THEN <<b>> ELSE <<128 + b>> \o EncodeSleb(rest)

\* read_uleb(&p): the value and the position after it
RECURSIVE read_uleb(_, _)
read_uleb(bytes, p) ==
  IF bytes[p] < 128 THEN [val |-> bytes[p], p |-> p + 1]
  ELSE LET r == read_uleb(bytes, p + 1) IN
       [val |-> (bytes[p] % 128) + 128 * r.val, p |-> r.p]

\* read_sleb(&p): the value read is sign-extended from its last bit
read_sleb(bytes, p) ==
  LET r == read_uleb(bytes, p)
      shift == 7 * (r.p - p) IN
  [val |-> IF r.val >= Pow2(shift - 1) THEN r.val - Pow2(shift) ELSE r.val,
   p |-> r.p]

ElfRel(offset, type, symidx, addend) ==
  [r_offset |-> offset, r_type |-> type, r_sym |-> symidx, r_addend |-> addend]

\* the relocation before the first one
NoRel == ElfRel(0, 0, 0, 0)

\* the encoding of one relocation after the relocation prev
EncodeRel(prev, r, is_rela, scale) ==
  LET nflags == IF is_rela THEN 3 ELSE 2
      delta == (r.r_offset - prev.r_offset) \div Pow2(scale)
      flags == (IF r.r_sym # prev.r_sym THEN 1 ELSE 0)
               + (IF r.r_type # prev.r_type THEN 2 ELSE 0)
               + (IF is_rela /\ r.r_addend # prev.r_addend THEN 4 ELSE 0)
      low == (delta % Pow2(7 - nflags)) * Pow2(nflags) + flags
      high == delta \div Pow2(7 - nflags) IN
  (IF high = 0 THEN <<low>> ELSE <<128 + low>> \o EncodeUleb(high))
  \o (IF r.r_sym # prev.r_sym THEN EncodeSleb(r.r_sym - prev.r_sym) ELSE <<>>)
  \o (IF r.r_type # prev.r_type THEN EncodeSleb(r.r_type - prev.r_type) ELSE <<>>)
  \o (IF is_rela /\ r.r_addend # prev.r_addend
      THEN EncodeSleb(r.r_addend - prev.r_addend) ELSE <<>>)

RECURSIVE EncodeRels(_, _, _, _)
EncodeRels(prev, rels, is_rela, scale) ==
  IF rels = <<>> THEN <<>>
  ELSE EncodeRel(prev, Head(rels), is_rela, scale)
       \o EncodeRels(Head(rels), Tail(rels), is_rela, scale)

\* the CREL encoding of a relocation table
EncodeCrel(rels, is_rela, scale) ==
  EncodeUleb(Len(rels) * 8 + (IF is_rela THEN 4 ELSE 0) + scale)
  \o EncodeRels(NoRel, rels, is_rela, scale)

\* the steps by which the offsets of the model grow, in units of the scale,
\* and the symbol indices, types and addends
OffsetSteps == {0, 20, 2100}
SymIndices == {0, 70}
RelTypes == {0, 1}
Addends == {0, -70}

\* the relocation tables of up to n relocations with the offsets scaled
RECURSIVE RelTables(_, _, _)
RelTables(n, from, scale) ==
  {<<>>} \cup
  (IF n = 0 THEN {}
   ELSE UNION { { <<ElfRel(from + d * Pow2(scale), t, y, a)>> \o rest :
                    rest \in RelTables(n - 1, from + d * Pow2(scale), scale) } :
                d \in OffsetSteps, t \in RelTypes, y \in SymIndices, a \in Addends })

InitCrel ==
  /\ ResolveIdle /\ InternIdle /\ RankIdle /\ VisIdle
  /\ ObjIdle /\ DsoIdle /\ MrgIdle /\ HdrIdle /\ LateIdle
  /\ \E is_rela \in BOOLEAN, target_rela \in BOOLEAN, scale \in {0, 3} :
       \E rels \in RelTables(MaxRels, 0, scale) :
         /\ ~is_rela => \A k \in 1..Len(rels) : rels[k].r_addend = 0
         /\ crel = [pc |-> "encode", rels |-> rels, is_rela |-> is_rela,
                    target_rela |-> target_rela, scale |-> scale, bytes |-> <<>>,
                    p |-> 1, nrels |-> 0, hdr_rela |-> FALSE, hdr_scale |-> 0,
                    last |-> NoRel, vec |-> <<>>]

CrelVarsUnchanged ==
  UNCHANGED <<resolveVars, internVars, rk, mv, objfile, sofile, pieces, mapped, lateVars>>

\* the table is encoded
Encode ==
  /\ crel.pc = "encode"
  /\ crel' = [crel EXCEPT !.bytes = EncodeCrel(crel.rels, crel.is_rela, crel.scale),
                          !.pc = "header"]
  /\ CrelVarsUnchanged

\* decode_crel up to the loop
DecodeHeader ==
  LET h == read_uleb(crel.bytes, crel.p)
      nrels == h.val \div 8
      is_rela == (h.val \div 4) % 2 = 1
      scale == h.val % 4 IN
  /\ crel.pc = "header"
  /\ crel' = [crel EXCEPT
       !.p = h.p, !.nrels = nrels, !.hdr_rela = is_rela, !.hdr_scale = scale,
       !.pc = IF is_rela /\ ~crel.target_rela THEN "fatal"
              ELSE IF nrels = 0 THEN "done" ELSE "loop"]
  /\ CrelVarsUnchanged

\* mutant: the flag bits are not shifted out of the first byte
CrelDelta_WithFlags(flags, nflags, ext) ==
  IF flags >= 128 THEN ext * Pow2(7 - nflags) + (flags % 128) ELSE flags

\* the offset delta of a relocation: the bits of the first byte above the
\* flags and, if bit 7 is set, the ULEB128 value ext above them
CrelDelta(flags, nflags, ext) ==
  IF flags >= 128
  THEN ext * Pow2(7 - nflags) + ((flags % 128) \div Pow2(nflags))
  ELSE flags \div Pow2(nflags)

\* decode_crel, one iteration of the loop
DecodeRel ==
  LET flags == crel.bytes[crel.p]
      nflags == IF crel.hdr_rela THEN 3 ELSE 2
      ext == IF flags >= 128 THEN read_uleb(crel.bytes, crel.p + 1)
             ELSE [val |-> 0, p |-> crel.p + 1]
      delta == CrelDelta(flags, nflags, ext.val)
      sym == IF flags % 2 = 1 THEN read_sleb(crel.bytes, ext.p)
             ELSE [val |-> 0, p |-> ext.p]
      type == IF (flags \div 2) % 2 = 1 THEN read_sleb(crel.bytes, sym.p)
              ELSE [val |-> 0, p |-> sym.p]
      add == IF crel.hdr_rela /\ (flags \div 4) % 2 = 1
             THEN read_sleb(crel.bytes, type.p)
             ELSE [val |-> 0, p |-> type.p]
      r == ElfRel(crel.last.r_offset + delta * Pow2(crel.hdr_scale),
                  crel.last.r_type + type.val,
                  crel.last.r_sym + sym.val,
                  crel.last.r_addend + add.val) IN
  /\ crel.pc = "loop"
  /\ crel' = [crel EXCEPT
       !.p = add.p, !.last = r, !.vec = Append(@, r),
       !.pc = IF Len(crel.vec) + 1 < crel.nrels THEN "loop" ELSE "done"]
  /\ CrelVarsUnchanged

NextCrel ==
  \/ Encode
  \/ DecodeHeader
  \/ DecodeRel

SpecCrel == InitCrel /\ [][NextCrel]_vars

----------------------------------------------------------------------------
(* Properties of decode_crel *)

\* C27: decoding the CREL encoding of a relocation table yields the table,
\* with exactly nrels entries, for every scale
C27_CrelRoundTrip ==
  crel.pc = "done" =>
    /\ crel.vec = crel.rels
    /\ Len(crel.vec) = crel.nrels
    /\ crel.p = Len(crel.bytes) + 1

\* C27 witness: a table of two relocations with addends is decoded; the
\* second offset delta does not fit the first byte, and a symbol index and
\* an addend go down
C27_Witness ==
  /\ crel.pc = "done" /\ crel.is_rela /\ crel.scale = 3
  /\ Len(crel.vec) = 2
  /\ crel.vec[2].r_offset - crel.vec[1].r_offset = 2100 * 8
  /\ crel.vec[2].r_sym < crel.vec[1].r_sym
  /\ crel.vec[2].r_addend < crel.vec[1].r_addend

----------------------------------------------------------------------------
(* decode_crel with the offset arithmetic in 64 bits *)

\* A u64 is the tuple of its four 16-bit limbs, the lowest first, so that
\* the offset wraps as it does in the code.
WordBits == 64
LimbPowers ==
  <<1, 2, 4, 8, 16, 32, 64, 128, 256, 512, 1024, 2048, 4096, 8192, 16384, 32768, 65536>>
\* 2^k for k up to 16
P2(k) == LimbPowers[k + 1]
Limb == P2(WordBits \div 4)
Limbs == 1..4

\* the u64 of a number below 2^31
U64(n) == <<n % Limb, n \div Limb, 0, 0>>

\* the number of the lowest k bits (k up to 16)
LowBits(w, k) == w[1] % P2(k)

\* limb i of w shifted left and right by k bits (k up to 16)
ShlLimb(w, k, i) ==
  ((w[i] % P2(16 - k)) * P2(k)) + (IF i > 1 THEN w[i - 1] \div P2(16 - k) ELSE 0)
ShrLimb(w, k, i) ==
  (w[i] \div P2(k)) + (IF i + 1 \in Limbs THEN (w[i + 1] % P2(k)) * P2(16 - k) ELSE 0)

Shl64(w, k) == <<ShlLimb(w, k, 1), ShlLimb(w, k, 2), ShlLimb(w, k, 3), ShlLimb(w, k, 4)>>
Shr64(w, k) == <<ShrLimb(w, k, 1), ShrLimb(w, k, 2), ShrLimb(w, k, 3), ShrLimb(w, k, 4)>>

RECURSIVE OrLimb(_, _, _)
\* the bitwise or of two limbs, from bit b up
OrLimb(x, y, b) ==
  IF b = 16 THEN 0
  ELSE (IF (x \div P2(b)) % 2 = 1 \/ (y \div P2(b)) % 2 = 1 THEN P2(b) ELSE 0)
       + OrLimb(x, y, b + 1)

Or64(v, w) ==
  <<OrLimb(v[1], w[1], 0), OrLimb(v[2], w[2], 0), OrLimb(v[3], w[3], 0),
    OrLimb(v[4], w[4], 0)>>
Not64(w) == <<Limb - 1 - w[1], Limb - 1 - w[2], Limb - 1 - w[3], Limb - 1 - w[4]>>

RECURSIVE AddFrom(_, _, _, _)
AddFrom(v, w, i, carry) ==
  IF i \notin Limbs THEN <<>>
  ELSE <<(v[i] + w[i] + carry) % Limb>>
       \o AddFrom(v, w, i + 1, (v[i] + w[i] + carry) \div Limb)

\* v + w and v - w modulo 2^64
Add64(v, w) == AddFrom(v, w, 1, 0)
Sub64(v, w) == AddFrom(v, Not64(w), 1, 1)

\* the ULEB128 encoding of a u64
RECURSIVE EncodeUleb64(_)
EncodeUleb64(w) ==
  IF Shr64(w, 7) = U64(0) THEN <<LowBits(w, 7)>>
  ELSE <<128 + LowBits(w, 7)>> \o EncodeUleb64(Shr64(w, 7))

\* the number of bytes of the ULEB128 value at p
RECURSIVE UlebLen(_, _)
UlebLen(bytes, p) == IF bytes[p] < 128 THEN 1 ELSE 1 + UlebLen(bytes, p + 1)

\* bit b of the ULEB128 value of n bytes at p: byte j gives the bits 7j..7j+6
UlebBit(bytes, p, n, b) ==
  IF b \div 7 < n THEN (bytes[p + (b \div 7)] \div P2(b % 7)) % 2 ELSE 0

RECURSIVE UlebLimb(_, _, _, _, _)
\* limb i of that value, from bit t of the limb up
UlebLimb(bytes, p, n, i, t) ==
  IF t = 16 THEN 0
  ELSE (UlebBit(bytes, p, n, 16 * (i - 1) + t) * P2(t)) + UlebLimb(bytes, p, n, i, t + 1)

\* read_uleb(&p) as a u64: the bits above the 64th are dropped
read_uleb64(bytes, p) ==
  LET n == UlebLen(bytes, p) IN
  [val |-> <<UlebLimb(bytes, p, n, 1, 0), UlebLimb(bytes, p, n, 2, 0),
             UlebLimb(bytes, p, n, 3, 0), UlebLimb(bytes, p, n, 4, 0)>>,
   p |-> p + n]

\* the relocation before the first one
NoRel64 == ElfRel(U64(0), 0, 0, 0)

\* the encoding of one relocation after the relocation prev: the delta is
\* the difference of the offsets modulo 2^64, shifted right by the scale
EncodeRel64(prev, r, is_rela, scale) ==
  LET nflags == IF is_rela THEN 3 ELSE 2
      delta == Shr64(Sub64(r.r_offset, prev.r_offset), scale)
      flags == (IF r.r_sym # prev.r_sym THEN 1 ELSE 0)
               + (IF r.r_type # prev.r_type THEN 2 ELSE 0)
               + (IF is_rela /\ r.r_addend # prev.r_addend THEN 4 ELSE 0)
      low == LowBits(delta, 7 - nflags) * Pow2(nflags) + flags
      high == Shr64(delta, 7 - nflags) IN
  (IF high = U64(0) THEN <<low>> ELSE <<128 + low>> \o EncodeUleb64(high))
  \o (IF r.r_sym # prev.r_sym THEN EncodeSleb(r.r_sym - prev.r_sym) ELSE <<>>)
  \o (IF r.r_type # prev.r_type THEN EncodeSleb(r.r_type - prev.r_type) ELSE <<>>)
  \o (IF is_rela /\ r.r_addend # prev.r_addend
      THEN EncodeSleb(r.r_addend - prev.r_addend) ELSE <<>>)

RECURSIVE EncodeRels64(_, _, _, _)
EncodeRels64(prev, rels, is_rela, scale) ==
  IF rels = <<>> THEN <<>>
  ELSE EncodeRel64(prev, Head(rels), is_rela, scale)
       \o EncodeRels64(Head(rels), Tail(rels), is_rela, scale)

EncodeCrel64(rels, is_rela, scale) ==
  EncodeUleb(Len(rels) * 8 + (IF is_rela THEN 4 ELSE 0) + scale)
  \o EncodeRels64(NoRel64, rels, is_rela, scale)

\* the offsets of the model, all multiples of 8: 0, 16, 16800, 2^64 - 2^31
\* and 2^64 - 8
WideOffsets ==
  { U64(0), U64(16), U64(16800), Sub64(U64(0), Shl64(U64(Limb \div 2), 16)),
    Not64(U64(7)) }

\* the relocations of the model: the offset with a symbol index, a type
\* and an addend that are all zero or all not
WideRels(is_rela) ==
  { ElfRel(o, t, 70 * t, IF is_rela THEN -70 * t ELSE 0) :
      o \in WideOffsets, t \in RelTypes }

RECURSIVE WideTables(_, _)
\* the tables of up to n relocations, their offsets in any order
WideTables(is_rela, n) ==
  IF n = 0 THEN {<<>>}
  ELSE LET shorter == WideTables(is_rela, n - 1) IN
       shorter \cup { Append(t, r) : t \in shorter, r \in WideRels(is_rela) }

InitCrelWide ==
  /\ ResolveIdle /\ InternIdle /\ RankIdle /\ VisIdle
  /\ ObjIdle /\ DsoIdle /\ MrgIdle /\ HdrIdle /\ LateIdle
  /\ \E is_rela \in BOOLEAN, scale \in {0, 3} :
       \E rels \in WideTables(is_rela, MaxRels) :
         crel = [pc |-> "encode", rels |-> rels, is_rela |-> is_rela,
                 target_rela |-> TRUE, scale |-> scale, bytes |-> <<>>,
                 p |-> 1, nrels |-> 0, hdr_rela |-> FALSE, hdr_scale |-> 0,
                 last |-> NoRel64, vec |-> <<>>]

\* the table is encoded
EncodeWide ==
  /\ crel.pc = "encode"
  /\ crel' = [crel EXCEPT !.bytes = EncodeCrel64(crel.rels, crel.is_rela, crel.scale),
                          !.pc = "header"]
  /\ CrelVarsUnchanged

\* mutant: the bits of the ULEB128 value are not moved above the bits of
\* the first byte
CrelDelta64_Unshifted(flags, nflags, ext) ==
  IF flags >= 128
  THEN Or64(ext, U64((flags % 128) \div Pow2(nflags)))
  ELSE U64(flags \div Pow2(nflags))

\* lines 267-271: the delta as a u64
CrelDelta64(flags, nflags, ext) ==
  IF flags >= 128
  THEN Or64(Shl64(ext, 7 - nflags), U64((flags % 128) \div Pow2(nflags)))
  ELSE U64(flags \div Pow2(nflags))

\* mutant: the delta is added without the scale
AdvanceOffset_Unscaled(offset, delta, scale) == Add64(offset, delta)

\* line 272: offset += delta << scale
AdvanceOffset(offset, delta, scale) == Add64(offset, Shl64(delta, scale))

\* decode_crel, one iteration of the loop
DecodeRelWide ==
  LET flags == crel.bytes[crel.p]
      nflags == IF crel.hdr_rela THEN 3 ELSE 2
      ext == IF flags >= 128 THEN read_uleb64(crel.bytes, crel.p + 1)
             ELSE [val |-> U64(0), p |-> crel.p + 1]
      delta == CrelDelta64(flags, nflags, ext.val)
      sym == IF flags % 2 = 1 THEN read_sleb(crel.bytes, ext.p)
             ELSE [val |-> 0, p |-> ext.p]
      type == IF (flags \div 2) % 2 = 1 THEN read_sleb(crel.bytes, sym.p)
              ELSE [val |-> 0, p |-> sym.p]
      add == IF crel.hdr_rela /\ (flags \div 4) % 2 = 1
             THEN read_sleb(crel.bytes, type.p)
             ELSE [val |-> 0, p |-> type.p]
      r == ElfRel(AdvanceOffset(crel.last.r_offset, delta, crel.hdr_scale),
                  crel.last.r_type + type.val,
                  crel.last.r_sym + sym.val,
                  crel.last.r_addend + add.val) IN
  /\ crel.pc = "loop"
  /\ crel' = [crel EXCEPT
       !.p = add.p, !.last = r, !.vec = Append(@, r),
       !.pc = IF Len(crel.vec) + 1 < crel.nrels THEN "loop" ELSE "done"]
  /\ CrelVarsUnchanged

NextCrelWide ==
  \/ EncodeWide
  \/ DecodeHeader
  \/ DecodeRelWide

SpecCrelWide == InitCrelWide /\ [][NextCrelWide]_vars

\* C32: the header gives nrels, is_rela and scale; every record advances
\* the offset by its delta shifted by the scale, modulo 2^64, and the
\* other fields by their SLEB128 values, and is emitted once: the decoded
\* table is the encoded one, also where an offset is below the one before
\* it, the delta having wrapped
C32_CrelWraps ==
  crel.pc = "done" =>
    /\ crel.nrels = Len(crel.rels)
    /\ crel.hdr_rela = crel.is_rela /\ crel.hdr_scale = crel.scale
    /\ Len(crel.vec) = crel.nrels
    /\ crel.vec = crel.rels
    /\ crel.p = Len(crel.bytes) + 1

\* C32 witness: a table with addends and scale 3 is decoded whose second
\* offset, 16, is below the first, 16800, and whose first offset needs
\* more than the first byte
C32_Witness ==
  /\ crel.pc = "done" /\ crel.hdr_rela /\ crel.hdr_scale = 3
  /\ Len(crel.vec) = 2
  /\ crel.vec[1].r_offset = U64(16800)
  /\ crel.vec[2].r_offset = U64(16)
  /\ crel.vec[2].r_sym # crel.vec[1].r_sym

----------------------------------------------------------------------------
(* ObjectFile::reattach_section_pieces of two object files *)

PieceFiles == {"a", "b"}

S_fragment == <<"<", "f", "r", "a", "g", "m", "e", "n", "t", ">">>

\* the section indices of every file of the model: section 1 is .rodata,
\* which may have been converted to a mergeable section, section 2 is an
\* allocated section with relocations, section 3 is not allocated
SectionLayout == [rodata |-> 1, text |-> 2, debug |-> 3, rodata_size |-> 20]
RodataShndx == SectionLayout.rodata
TextShndx == SectionLayout.text
DebugShndx == SectionLayout.debug

\* the pieces of .rodata: "Hello world\0" at 0 and "foo bar\0" at 12; the
\* section is 20 bytes long
FragOffsets == <<0, 12>>
RodataSize == SectionLayout.rodata_size

NoFragment == 0

\* a section piece: the k-th piece of the mergeable section shndx of file f
FragOrigin(f, shndx, k) ==
  [kind |-> "frag", file |-> f, shndx |-> shndx, key |-> <<k>>]

\* MergeableSection::get_fragment(offset): the piece that holds the offset
\* and the offset inside the piece, or no piece; a section whose parent is
\* not resolved has no pieces
get_fragment(m, offset) ==
  LET ends == [k \in 1..Len(FragOffsets) |->
                 IF k = Len(FragOffsets) THEN RodataSize ELSE FragOffsets[k + 1]]
      hits == { k \in 1..Len(FragOffsets) :
                  m.resolved /\ FragOffsets[k] <= offset /\ offset < ends[k] } IN
  IF hits = {} THEN [frag |-> NoFragment, offset |-> 0]
  ELSE LET k == CHOOSE k \in hits : TRUE IN
       [frag |-> k, offset |-> offset - FragOffsets[k]]

\* a relocation with its addend
Rel(r_sym, r_addend) == [r_sym |-> r_sym, r_addend |-> r_addend]

\* the relocations of the allocated section: to the section symbol of
\* .rodata (entry 1) with the addends 0, 12 and 20, and to the global entry 3
PieceRels == { Rel(1, 0), Rel(1, 12), Rel(1, RodataSize), Rel(3, 0) }

RelSeqs(n) == UNION { [1..m -> PieceRels] : m \in 0..n }

\* no mergeable section (a null entry of mergeable_sections)
NoMergeable == [present |-> FALSE, resolved |-> FALSE]
Mergeable(resolved) == [present |-> TRUE, resolved |-> resolved]

\* an input section (or none, where the section was converted)
NoSection == [present |-> FALSE, alloc |-> FALSE, rels |-> <<>>]
InputSection(alloc, rels) == [present |-> TRUE, alloc |-> alloc, rels |-> rels]

\* a file before reattach_section_pieces: entry 1 is the section symbol of
\* .rodata, entry 2 a local symbol in .rodata, entry 3 the global symbol f
PieceFile(m, local_value, global_entry, text_rels, debug_rels) ==
  [elf_syms |-> Z(<<NullEntry,
                    TypedEsym(<<>>, STT_SECTION, RodataShndx, 0),
                    TypedEsym(S_g, STT_NOTYPE, RodataShndx, local_value),
                    global_entry>>),
   symbols |-> <<LocalRef(0), LocalRef(1), LocalRef(2), GlobalRef(S_f)>>,
   first_global |-> 3,
   mergeable_sections |-> <<m, NoMergeable, NoMergeable>>,
   sections |-> <<IF m.present THEN NoSection ELSE InputSection(TRUE, <<>>),
                  InputSection(TRUE, text_rels),
                  InputSection(FALSE, debug_rels)>>,
   frag_syms |-> <<>>, nfrag_syms |-> 0,
   pc |-> "syms", i |-> 1, shndx |-> 1, k |-> 1, idx |-> 0]

\* the global entries of a file for f: undefined, in .rodata, in .text
PieceGlobals ==
  { TypedEsym(S_f, STT_NOTYPE, SHN_UNDEF, 0),
    TypedEsym(S_f, STT_NOTYPE, RodataShndx, 12),
    TypedEsym(S_f, STT_NOTYPE, TextShndx, 4) }

\* a symbol as resolution (or initialize_symbols) left it: bound to the input
\* section of its entry, which is null for a converted section
BoundTo(f, files, i) ==
  LET esym == files[f].elf_syms[i] IN
  [NewSymbol(esym.st_name) EXCEPT
     !.file = f, !.sym_idx = i, !.value = esym.st_value,
     !.origin = IF files[f].sections[esym.st_shndx].present
                THEN SectionOrigin(f, esym.st_shndx) ELSE NoOrigin]

InitPieces ==
  /\ ResolveIdle /\ InternIdle /\ RankIdle /\ VisIdle
  /\ ObjIdle /\ DsoIdle /\ CrelIdle /\ HdrIdle /\ LateIdle
  /\ \E ma \in {NoMergeable, Mergeable(TRUE), Mergeable(FALSE)},
        la \in {12, RodataSize}, ga \in PieceGlobals, gb \in PieceGlobals,
        ra \in RelSeqs(MaxPieceRels), da \in {<<>>, <<Rel(1, 12)>>} :
       LET files == "a" :> PieceFile(ma, la, ga, ra, da)
                    @@ "b" :> PieceFile(Mergeable(TRUE), 12, gb, <<>>, <<>>)
           definers == { f \in PieceFiles : ~is_undef(files[f].elf_syms[3]) } IN
       \E w \in (IF definers = {} THEN {Null} ELSE definers) :
         pieces = [file |-> files,
                   local_syms |-> [f \in PieceFiles |->
                                     [i \in 1..2 |-> BoundTo(f, files, i)]],
                   global |-> IF w = Null THEN NewSymbol(S_f)
                              ELSE BoundTo(w, files, 3)]

PiecesVarsUnchanged ==
  UNCHANGED <<resolveVars, internVars, rk, mv, objfile, sofile, crel, mapped, lateVars>>

\* Fatal ends the process, and so does a failed assertion
PiecesRunning ==
  \A f \in PieceFiles : pieces.file[f].pc \notin {"fatal", "aborted"}

\* the entries the first loop passes over
SkipsEntry(F, esym) ==
  \/ is_abs(esym) \/ is_common(esym) \/ is_undef(esym)
  \/ ~F.mergeable_sections[esym.st_shndx].present
  \/ ~F.mergeable_sections[esym.st_shndx].resolved

\* mutant: the symbol is bound to the piece but keeps its value
Reattached_KeepsValue(sym, frag, frag_offset) == [sym EXCEPT !.origin = frag]

\* sym.set_frag(frag); sym.value = frag_offset
Reattached(sym, frag, frag_offset) ==
  [sym EXCEPT !.origin = frag, !.value = frag_offset]

\* the first loop of reattach_section_pieces of f, one iteration: the symbol
\* symbols[i], the file's own local symbol or the interned global symbol, is
\* attached to its piece
ReattachSymbol(f) ==
  LET F == pieces.file[f]
      i == F.i
      esym == F.elf_syms[i]
      r == get_fragment(F.mergeable_sections[esym.st_shndx], esym.st_value)
      frag == FragOrigin(f, esym.st_shndx, r.frag)
      next == IF i + 1 < Size(F.elf_syms) THEN "syms" ELSE "count" IN
  /\ PiecesRunning /\ F.pc = "syms"
  /\ IF SkipsEntry(F, esym)
     THEN pieces' = [pieces EXCEPT !.file[f].i = i + 1, !.file[f].pc = next]
     ELSE IF r.frag = NoFragment
          THEN pieces' = [pieces EXCEPT !.file[f].pc = "fatal"]
          ELSE IF F.symbols[i + 1].kind = "local"
               THEN pieces' = [pieces EXCEPT
                      !.local_syms[f][i] = Reattached(@, frag, r.offset),
                      !.file[f].i = i + 1, !.file[f].pc = next]
               ELSE pieces' = [pieces EXCEPT
                      !.global = Reattached(@, frag, r.offset),
                      !.file[f].i = i + 1, !.file[f].pc = next]
  /\ PiecesVarsUnchanged

\* a relocation that refers to the section symbol of a mergeable section
RefersToMergeable(F, r) ==
  LET esym == F.elf_syms[r.r_sym] IN
  /\ esym.st_type = STT_SECTION
  /\ F.mergeable_sections[esym.st_shndx].present

\* the relocations of the allocated sections, as <<section index, position>>
AllocRels(F) ==
  { <<x, k>> \in (1..Len(F.sections)) \X (1..MaxPieceRels + 1) :
      F.sections[x].present /\ F.sections[x].alloc /\ k <= Len(F.sections[x].rels) }

\* the relocation after <<x, k>> in the order of the loops, or <<>>
NextRel(F, x, k) ==
  LET later == { p \in AllocRels(F) : p[1] > x \/ (p[1] = x /\ p[2] > k) } IN
  IF later = {} THEN <<>>
  ELSE CHOOSE p \in later :
         \A q \in later : p[1] < q[1] \/ (p[1] = q[1] /\ p[2] <= q[2])

\* the size of frag_syms is computed
CountFragSyms(f) ==
  LET F == pieces.file[f]
      n == Cardinality({ p \in AllocRels(F) :
                           RefersToMergeable(F, F.sections[p[1]].rels[p[2]]) })
      first == NextRel(F, 0, 0) IN
  /\ PiecesRunning /\ F.pc = "count"
  /\ pieces' = [pieces EXCEPT
       !.file[f].nfrag_syms = n,
       !.file[f].frag_syms = [j \in 1..n |-> NewSymbol(<<>>)],
       !.file[f].shndx = IF first = <<>> THEN 0 ELSE first[1],
       !.file[f].k = IF first = <<>> THEN 0 ELSE first[2],
       !.file[f].pc = IF first = <<>> THEN "push" ELSE "rels"]
  /\ PiecesVarsUnchanged

\* mutant: the addend is not taken off the offset inside the piece
FragSymValue_NoAddend(in_frag_offset, r_addend) == in_frag_offset

\* sym.value = in_frag_offset - r_addend
FragSymValue(in_frag_offset, r_addend) == in_frag_offset - r_addend

\* mutant: the relocation is redirected one entry too far
RedirectedIndex_OffByOne(F, n) == Size(F.elf_syms) + n + 1

\* r.r_sym = this->elf_syms.size() + idx
RedirectedIndex(F, n) == Size(F.elf_syms) + n

\* the second loop of reattach_section_pieces of f, one relocation; asserted
\* is the outcome of assert(m->parent.resolved) where the parent is not
\* resolved: the assertion ends the process, or it is compiled out
ReattachRel(f, asserted) ==
  LET F == pieces.file[f]
      r == F.sections[F.shndx].rels[F.k]
      esym == F.elf_syms[r.r_sym]
      m == F.mergeable_sections[esym.st_shndx]
      g == get_fragment(m, esym.st_value + r.r_addend)
      next == NextRel(F, F.shndx, F.k)
      advanced == [F EXCEPT !.shndx = IF next = <<>> THEN 0 ELSE next[1],
                            !.k = IF next = <<>> THEN 0 ELSE next[2],
                            !.pc = IF next = <<>> THEN "push" ELSE "rels"]
      sym == [NewSymbol(S_fragment) EXCEPT
                !.file = f, !.sym_idx = r.r_sym, !.visibility = STV_HIDDEN,
                !.origin = FragOrigin(f, esym.st_shndx, g.frag),
                !.value = FragSymValue(g.offset, r.r_addend)] IN
  /\ PiecesRunning /\ F.pc = "rels"
  /\ asserted => RefersToMergeable(F, r) /\ ~m.resolved
  /\ pieces' = [pieces EXCEPT !.file[f] =
       IF ~RefersToMergeable(F, r) THEN advanced
       ELSE IF asserted THEN [F EXCEPT !.pc = "aborted"]
       ELSE IF g.frag = NoFragment THEN [F EXCEPT !.pc = "fatal"]
       ELSE [advanced EXCEPT
               !.frag_syms[F.idx + 1] = sym,
               !.sections[F.shndx].rels[F.k].r_sym = RedirectedIndex(F, F.idx),
               !.idx = F.idx + 1]]
  /\ PiecesVarsUnchanged

\* the synthesized symbols are appended to symbols
PushFragSyms(f) ==
  LET F == pieces.file[f] IN
  /\ PiecesRunning /\ F.pc = "push"
  /\ pieces' = [pieces EXCEPT
       !.file[f].symbols = @ \o [j \in 1..Len(F.frag_syms) |-> [kind |-> "frag", at |-> j]],
       !.file[f].pc = "done"]
  /\ PiecesVarsUnchanged

NextPieces ==
  \E f \in PieceFiles :
    \/ ReattachSymbol(f)
    \/ CountFragSyms(f)
    \/ \E asserted \in BOOLEAN : ReattachRel(f, asserted)
    \/ PushFragSyms(f)

SpecPieces == InitPieces /\ [][NextPieces]_vars

----------------------------------------------------------------------------
(* Properties of reattach_section_pieces *)

\* the relocations of the allocated sections of f, as <<section, position>>
AllocRelocations(f) ==
  LET F == pieces.file[f] IN
  { <<x, k>> \in (1..Len(F.sections)) \X (1..MaxPieceRels) :
      F.sections[x].alloc /\ k \in DOMAIN F.sections[x].rels }

RelAt(f, p) == pieces.file[f].sections[p[1]].rels[p[2]]

\* the relocation refers to a symbol table entry that is the section symbol
\* of a mergeable section
ToSectionSymbol(f, r) ==
  LET F == pieces.file[f] IN
  /\ r.r_sym < Size(F.elf_syms)
  /\ F.elf_syms[r.r_sym].st_type = STT_SECTION
  /\ F.mergeable_sections[F.elf_syms[r.r_sym].st_shndx].present

\* the relocation has been redirected
Redirected(f, r) == r.r_sym >= Size(pieces.file[f].elf_syms)

\* the synthesized symbol a redirected relocation refers to
FragSymOf(f, r) ==
  pieces.file[f].frag_syms[r.r_sym - Size(pieces.file[f].elf_syms) + 1]

\* C23: after reattach_section_pieces of a file no relocation of its
\* allocated sections refers to the section symbol of a mergeable section;
\* every redirected relocation has a synthesized symbol of its own, named
\* <fragment>, hidden and bound to a piece, which symbols holds at r_sym; and
\* there are as many synthesized symbols as were counted
C23_RelocationsRedirected ==
  \A f \in PieceFiles :
    LET F == pieces.file[f]
        n == Size(F.elf_syms)
        redirected == { p \in AllocRelocations(f) : Redirected(f, RelAt(f, p)) } IN
    F.pc = "done" =>
      /\ \A p \in AllocRelocations(f) : ~ToSectionSymbol(f, RelAt(f, p))
      /\ \A p \in redirected :
           LET r == RelAt(f, p)
               sym == FragSymOf(f, r) IN
           /\ r.r_sym - n + 1 \in 1..Len(F.frag_syms)
           /\ r.r_sym + 1 \in 1..Len(F.symbols)
           /\ F.symbols[r.r_sym + 1] = [kind |-> "frag", at |-> r.r_sym - n + 1]
           /\ sym.name = S_fragment /\ sym.visibility = STV_HIDDEN
           /\ sym.file = f
           /\ sym.origin.kind = "frag" /\ sym.origin.key # <<NoFragment>>
           /\ F.elf_syms[sym.sym_idx].st_type = STT_SECTION
           /\ \A q \in redirected : RelAt(f, q).r_sym = r.r_sym => q = p
      /\ Len(F.frag_syms) = Cardinality(redirected)
      /\ F.nfrag_syms = Cardinality(redirected)
      /\ Len(F.symbols) = n + Cardinality(redirected)

\* C23 witness: the file a is done; both relocations of its allocated
\* section were redirected, and the relocation of its section that is not
\* allocated still refers to the section symbol
C23_Witness ==
  LET F == pieces.file["a"] IN
  /\ F.pc = "done"
  /\ Len(F.sections[TextShndx].rels) = 2
  /\ \A k \in 1..2 : Redirected("a", F.sections[TextShndx].rels[k])
  /\ Len(F.sections[DebugShndx].rels) = 1
  /\ ToSectionSymbol("a", F.sections[DebugShndx].rels[1])

\* the piece of .rodata that holds the offset, or no piece
PieceAt(offset) ==
  IF 0 <= offset /\ offset < 12 THEN 1
  ELSE IF 12 <= offset /\ offset < RodataSize THEN 2 ELSE NoFragment

\* C24: the synthesized symbol of a redirected relocation is bound to the
\* piece that holds esym.st_value + r_addend, and its value plus the addend
\* is the offset of that byte inside the piece
C24_AddendAbsorbed ==
  \A f \in PieceFiles :
    \A p \in AllocRelocations(f) :
      LET r == RelAt(f, p) IN
      Redirected(f, r) =>
        LET sym == FragSymOf(f, r)
            esym == pieces.file[f].elf_syms[sym.sym_idx]
            addressed == esym.st_value + r.r_addend
            k == PieceAt(addressed) IN
        /\ k # NoFragment
        /\ sym.origin = FragOrigin(f, esym.st_shndx, k)
        /\ sym.value + r.r_addend = addressed - FragOffsets[k]

\* C24 witness: a relocation .rodata+12 was redirected to a symbol bound to
\* the second piece, with value + addend = 0
C24_Witness ==
  \E p \in AllocRelocations("a") :
    LET r == RelAt("a", p) IN
    /\ Redirected("a", r) /\ r.r_addend = 12
    /\ FragSymOf("a", r).origin = FragOrigin("a", RodataShndx, 2)
    /\ FragSymOf("a", r).value = -12

\* the symbol of entry i of the file f
SymbolOfEntry(ps, f, i) ==
  IF ps.file[f].symbols[i + 1].kind = "local" THEN ps.local_syms[f][i] ELSE ps.global

\* the file f takes a step of the first loop
SymbolStepOf(f) ==
  pieces.file[f].pc = "syms" /\ pieces'.file[f] # pieces.file[f]

\* C25: an iteration of the first loop for an entry of the file that defines
\* its symbol in a resolved mergeable section binds the symbol to the piece
\* that holds st_value, with the offset inside the piece as its value; if
\* no piece holds st_value the file fails and the symbol is left alone
C25_SymbolsReattached ==
  [][ \A f \in PieceFiles :
        LET F == pieces.file[f]
            i == F.i
            esym == F.elf_syms[i]
            sym == SymbolOfEntry(pieces, f, i)
            k == PieceAt(esym.st_value) IN
        ( /\ SymbolStepOf(f)
          /\ esym.st_shndx = RodataShndx
          /\ F.mergeable_sections[RodataShndx].present
          /\ F.mergeable_sections[RodataShndx].resolved
          /\ sym.file = f /\ sym.sym_idx = i ) =>
            IF k = NoFragment
            THEN /\ pieces'.file[f].pc = "fatal"
                 /\ SymbolOfEntry(pieces', f, i) = sym
            ELSE /\ pieces'.file[f].pc # "fatal"
                 /\ SymbolOfEntry(pieces', f, i).origin = FragOrigin(f, RodataShndx, k)
                 /\ SymbolOfEntry(pieces', f, i).value = esym.st_value - FragOffsets[k]
    ]_vars

\* C25 witness: the file a has failed at its local symbol, whose value is
\* one byte past the last piece; the symbol is not bound to a piece, while
\* the section symbol before it is bound to the first piece
C25_Witness ==
  LET F == pieces.file["a"] IN
  /\ F.pc = "fatal" /\ F.i = 2
  /\ F.elf_syms[2].st_value = RodataSize
  /\ pieces.local_syms["a"][2].origin = NoOrigin
  /\ pieces.local_syms["a"][1].origin = FragOrigin("a", RodataShndx, 1)

\* C26: a step of reattach_section_pieces of a file leaves the global symbol
\* alone if the symbol's defining file is another file
C26_OnlyOwnSymbols ==
  [][ \A f \in PieceFiles :
        (pieces'.file[f] # pieces.file[f] /\ pieces.global.file # f) =>
          pieces'.global = pieces.global ]_vars

----------------------------------------------------------------------------
(* Specification of ObjectFile::initialize_sections *)

\* The objects of one link run initialize_sections, each on its own thread.
\* The target is not ARM or RISC-V; no section of the inputs has one of the
\* other names the default case tests (.note.gnu.property, .comment, ...),
\* and strip_all, strip_debug, discard_section, oformat_binary and gdb_index
\* are off, so that a section that reaches line 427 becomes an InputSection.

SectionFiles == {"a", "b"}

GRP_COMDAT == 1

S_note_GNU_stack == <<".", "n", "o", "t", "e", ".", "G", "N", "U", "-", "s", "t", "a", "c", "k">>
S_wm4 == <<"w", "m", "4", ".">>
S_wm4_macro == <<"w", "m", "4", ".", "1">>
S_wm == <<"w", "m", "4">>

\* a section header with the data the function reads from the section
ElfShdr(sh_type, name, sh_flags, sh_info, entries) ==
  [sh_type |-> sh_type, name |-> name, sh_flags |-> sh_flags,
   sh_info |-> sh_info, entries |-> entries]

\* elf_syms of every file: a group's sh_info names its signature
SectionSyms ==
  << NullEntry,
     TypedEsym(S_g, STT_NOTYPE, SHN_UNDEF, 0),
     TypedEsym(S_wm4_macro, STT_NOTYPE, SHN_UNDEF, 0),
     TypedEsym(S_wm, STT_NOTYPE, SHN_UNDEF, 0),
     TypedEsym(<<>>, STT_SECTION, 0, 0) >>

TextSection == ElfShdr("SHT_PROGBITS", S_text, {"SHF_ALLOC"}, 0, <<>>)

\* sections named .note.GNU-stack
StackSections ==
  { ElfShdr("SHT_PROGBITS", S_note_GNU_stack, flags, 0, <<>>) :
      flags \in {{}, {"SHF_EXECINSTR"}, {"SHF_EXECINSTR", "SHF_EXCLUDE"}} }

\* relocation sections: sh_info is the target, Size(SectionSyms) + 4 is
\* past the section table of every file of the model
RelocSections ==
  { ElfShdr("SHT_RELA", S_text, {}, info, <<>>) : info \in {0, 1} }
  \cup { ElfShdr("SHT_CREL", S_text, {}, 0, <<>>),
         ElfShdr("SHT_REL", S_text, {}, 0, <<>>),
         ElfShdr("SHT_RELA", S_text, {}, Size(SectionSyms) + 4, <<>>),
         ElfShdr("SHT_DYNAMIC", S_text, {}, 0, <<>>) }

\* section groups: sh_info is the signature's symbol, the entries are the
\* flag word and the members
GroupSections ==
  { ElfShdr("SHT_GROUP", S_text, {}, 1, e) :
      e \in {<<>>, <<0, 1>>, <<GRP_COMDAT, 1>>, <<GRP_COMDAT + 1, 1>>} }
  \cup { ElfShdr("SHT_GROUP", S_text, {}, 2, <<>>),
         ElfShdr("SHT_GROUP", S_text, {}, 3, <<GRP_COMDAT, 0>>),
         ElfShdr("SHT_GROUP", S_text, {}, 4, <<GRP_COMDAT, 0, 1>>),
         ElfShdr("SHT_GROUP", S_text, {}, Size(SectionSyms), <<GRP_COMDAT, 1>>),
         ElfShdr("SHT_GROUP", S_text, {"SHF_EXCLUDE"}, 1, <<GRP_COMDAT + 1, 1>>) }

RECURSIVE SectionTables(_, _)
\* the section tables of 1..n headers drawn from kinds
SectionTables(kinds, n) ==
  IF n = 0 THEN {}
  ELSE LET shorter == SectionTables(kinds, n - 1) IN
       { <<k>> : k \in kinds } \cup shorter
       \cup { Append(t, k) : t \in shorter, k \in kinds }

SectionArgs(relocatable, z_execstack, z_execstack_if_needed) ==
  [relocatable |-> relocatable, z_execstack |-> z_execstack,
   z_execstack_if_needed |-> z_execstack_if_needed]

\* the links of the model: a's sections are relocation sections, or section
\* groups, or stack notes, each with .text; b has one section
SectionLinks ==
  { [a |-> t, b |-> <<TextSection>>, is_rela |-> r,
     arg |-> SectionArgs(FALSE, FALSE, FALSE)] :
      t \in SectionTables({TextSection} \cup RelocSections, MaxIsecs),
      r \in BOOLEAN }
  \cup
  { [a |-> t, b |-> <<TextSection>>, is_rela |-> TRUE,
     arg |-> SectionArgs(FALSE, FALSE, FALSE)] :
      t \in SectionTables({TextSection} \cup GroupSections, MaxIsecs) }
  \cup
  { [a |-> t, b |-> <<s>>, is_rela |-> TRUE, arg |-> arg] :
      t \in SectionTables({TextSection} \cup StackSections, MaxIsecs),
      s \in { n \in StackSections : "SHF_EXCLUDE" \notin n.sh_flags },
      arg \in { SectionArgs(FALSE, FALSE, FALSE), SectionArgs(TRUE, FALSE, FALSE),
                SectionArgs(FALSE, TRUE, FALSE), SectionArgs(FALSE, FALSE, TRUE) } }

\* sections[i] of a section that was not kept
NullSection == [shndx |-> -1, relsec_idx |-> -1]

\* an InputSection as its constructor leaves it
NewInputSection(shndx) == [shndx |-> shndx, relsec_idx |-> -1]

\* an ObjectFile after sections.resize (line 882)
SectionFile(elf_sections) ==
  [elf_sections |-> elf_sections,
   sections |-> [k \in 1..Len(elf_sections) |-> NullSection],
   comdat_groups |-> <<>>, decoded_crel |-> {},
   needs_executable_stack |-> FALSE, assert_failed |-> FALSE,
   pc |-> "read", i |-> 0]

InitSections ==
  /\ ResolveIdle /\ InternIdle /\ RankIdle /\ VisIdle
  /\ EarlyIdle /\ EhIdle /\ OutIdle
  /\ \E link \in SectionLinks :
       isecs = [arg |-> link.arg, is_rela |-> link.is_rela,
                comdat_groups |-> {}, warnings |-> <<>>,
                file |-> [f \in SectionFiles |->
                            SectionFile(IF f = "a" THEN link.a ELSE link.b)]]

SectionVarsUnchanged ==
  UNCHANGED <<resolveVars, internVars, rk, mv, objfile, sofile, pieces, crel,
              mapped, ehframe, symout>>

\* Fatal ends the process, and so do a failed assertion and a fault
SectionsRunning ==
  \A f \in SectionFiles : isecs.file[f].pc \notin {"fatal", "aborted", "crashed"}

\* the section header of index i (from 0)
ShdrAt(F, i) == F.elf_sections[i + 1]

is_known_section_type(shdr) ==
  shdr.sh_type \in {"SHT_PROGBITS", "SHT_NOTE", "SHT_NOBITS", "SHT_INIT_ARRAY",
                    "SHT_FINI_ARRAY", "SHT_PREINIT_ARRAY"}

\* lines 305-307
IsExcluded(arg, shdr) ==
  /\ "SHF_EXCLUDE" \in shdr.sh_flags /\ "SHF_ALLOC" \notin shdr.sh_flags
  /\ shdr.sh_type # "SHT_LLVM_ADDRSIG" /\ ~arg.relocatable

\* the signature of a group whose sh_info is a symbol of the file
GroupSignature(F, shdr) ==
  LET esym == SectionSyms[shdr.sh_info + 1] IN
  IF esym.st_type = STT_SECTION THEN ShdrAt(F, esym.st_shndx).name
  ELSE esym.st_name

GroupOutcome_FlagZeroFatal(F, shdr) ==
  IF shdr.sh_info >= Len(SectionSyms) THEN "fatal"
  ELSE IF StartsWith(GroupSignature(F, shdr), S_wm4) THEN "skip"
  ELSE IF shdr.entries = <<>> THEN "fatal"
  ELSE IF shdr.entries[1] # GRP_COMDAT THEN "fatal"
  ELSE "group"

\* case SHT_GROUP
GroupOutcome(F, shdr) ==
  IF shdr.sh_info >= Len(SectionSyms) THEN "fatal"
  ELSE IF StartsWith(GroupSignature(F, shdr), S_wm4) THEN "skip"
  ELSE IF shdr.entries = <<>> THEN "fatal"
  ELSE IF shdr.entries[1] = 0 THEN "skip"
  ELSE IF shdr.entries[1] # GRP_COMDAT THEN "fatal"
  ELSE "group"

StackOutcome_NoOptOut(arg, shdr) ==
  IF "SHF_EXECINSTR" \in shdr.sh_flags THEN "warn" ELSE "skip"

\* lines 375-383
StackOutcome(arg, shdr) ==
  IF "SHF_EXECINSTR" \in shdr.sh_flags
  THEN IF ~arg.z_execstack /\ ~arg.z_execstack_if_needed THEN "warn" ELSE "execstack"
  ELSE "skip"

\* what the first loop does with a section
SectionOutcome(arg, F, shdr) ==
  IF IsExcluded(arg, shdr) THEN "skip"
  ELSE IF shdr.sh_type = "SHT_GROUP" THEN GroupOutcome(F, shdr)
  ELSE IF shdr.sh_type = "SHT_CREL" THEN "crel"
  ELSE IF shdr.sh_type \in {"SHT_REL", "SHT_RELA", "SHT_SYMTAB", "SHT_SYMTAB_SHNDX",
                            "SHT_STRTAB", "SHT_NULL"}
       THEN "skip"
  ELSE IF ~is_known_section_type(shdr) THEN "fatal"
  ELSE IF shdr.name = S_note_GNU_stack /\ ~arg.relocatable
       THEN StackOutcome(arg, shdr)
  ELSE "section"

\* the first loop: section i
ReadSection(f) ==
  LET F == isecs.file[f]
      i == F.i IN
  /\ SectionsRunning
  /\ F.pc = "read" /\ i < Len(F.elf_sections)
  /\ LET shdr == ShdrAt(F, i)
         out == SectionOutcome(isecs.arg, F, shdr)
         G == [F EXCEPT
                 !.i = IF out = "fatal" THEN i ELSE i + 1,
                 !.pc = IF out = "fatal" THEN "fatal" ELSE "read",
                 !.sections[i + 1] = IF out = "section" THEN NewInputSection(i) ELSE @,
                 !.decoded_crel = IF out = "crel" THEN @ \cup {i} ELSE @,
                 !.needs_executable_stack = @ \/ out \in {"warn", "execstack"},
                 !.comdat_groups =
                    IF out = "group"
                    THEN Append(@, [group |-> GroupSignature(F, shdr), i |-> i,
                                    members |-> Tail(shdr.entries)])
                    ELSE @] IN
     isecs' = [isecs EXCEPT
        !.file[f] = G,
        !.warnings = IF out = "warn" THEN Append(@, f) ELSE @,
        !.comdat_groups = IF out = "group" THEN @ \cup {GroupSignature(F, shdr)} ELSE @]
  /\ SectionVarsUnchanged

\* the first loop is over
EndRead(f) ==
  LET F == isecs.file[f] IN
  /\ SectionsRunning
  /\ F.pc = "read" /\ F.i = Len(F.elf_sections)
  /\ isecs' = [isecs EXCEPT !.file[f].pc = "attach", !.file[f].i = 0]
  /\ SectionVarsUnchanged

IsRelocSection_AnyRel(is_rela, shdr) ==
  shdr.sh_type \in {"SHT_RELA", "SHT_REL", "SHT_CREL"}

\* lines 495-496
IsRelocSection(is_rela, shdr) ==
  \/ shdr.sh_type = (IF is_rela THEN "SHT_RELA" ELSE "SHT_REL")
  \/ shdr.sh_type = "SHT_CREL"

Bound_First(target, i) ==
  IF target.relsec_idx = -1 THEN [target EXCEPT !.relsec_idx = i] ELSE target

\* line 499
Bound(target, i) == [target EXCEPT !.relsec_idx = i]

\* the second loop: section i, whose sh_info is inside sections; a build
\* with assertions ends at a failed assertion, a build without goes on
AttachRelocation(f, asserting) ==
  LET F == isecs.file[f]
      i == F.i IN
  /\ SectionsRunning
  /\ F.pc = "attach" /\ i < Len(F.elf_sections)
  /\ LET shdr == ShdrAt(F, i)
         binds == /\ IsRelocSection(isecs.is_rela, shdr)
                  /\ F.sections[shdr.sh_info + 1] # NullSection
         fails == binds /\ F.sections[shdr.sh_info + 1].relsec_idx # -1 IN
     /\ IsRelocSection(isecs.is_rela, shdr) => shdr.sh_info < Len(F.sections)
     /\ asserting => fails
     /\ isecs' = [isecs EXCEPT !.file[f] =
          IF asserting THEN [F EXCEPT !.pc = "aborted"]
          ELSE [F EXCEPT
                  !.i = i + 1,
                  !.assert_failed = @ \/ fails,
                  !.sections[shdr.sh_info + 1] = IF binds THEN Bound(@, i) ELSE @]]
  /\ SectionVarsUnchanged

\* the second loop: sh_info is past the end of sections, the read of
\* sections[sh_info] is outside the vector: a fault, or a value that
\* happens to be null
AttachOutOfBounds(f, fault) ==
  LET F == isecs.file[f]
      i == F.i IN
  /\ SectionsRunning
  /\ F.pc = "attach" /\ i < Len(F.elf_sections)
  /\ IsRelocSection(isecs.is_rela, ShdrAt(F, i))
  /\ ShdrAt(F, i).sh_info >= Len(F.sections)
  /\ isecs' = [isecs EXCEPT !.file[f] =
       IF fault THEN [F EXCEPT !.pc = "crashed"] ELSE [F EXCEPT !.i = i + 1]]
  /\ SectionVarsUnchanged

\* the second loop is over
EndAttach(f) ==
  LET F == isecs.file[f] IN
  /\ SectionsRunning
  /\ F.pc = "attach" /\ F.i = Len(F.elf_sections)
  /\ isecs' = [isecs EXCEPT !.file[f].pc = "done"]
  /\ SectionVarsUnchanged

NextSections ==
  \E f \in SectionFiles :
    \/ ReadSection(f)
    \/ EndRead(f)
    \/ \E asserting \in BOOLEAN : AttachRelocation(f, asserting)
    \/ \E fault \in BOOLEAN : AttachOutOfBounds(f, fault)
    \/ EndAttach(f)

SpecSections == InitSections /\ [][NextSections]_vars

----------------------------------------------------------------------------
(* Properties of initialize_sections *)

\* the indices (from 0) of the InputSections of a file
InputSectionsOf(F) == { k \in 0..(Len(F.sections) - 1) : F.sections[k + 1] # NullSection }

\* C31: after the binding loop every InputSection's relsec_idx is -1 or the
\* index of a SHT_REL, SHT_RELA or SHT_CREL section whose sh_info is the
\* InputSection's index, no two InputSections share a relsec_idx other than
\* -1, and the assertion before each binding has held
C31_RelsecBinding ==
  \A f \in SectionFiles :
    LET F == isecs.file[f] IN
    /\ F.pc # "aborted" /\ ~F.assert_failed
    /\ F.pc = "done" =>
         /\ \A k \in InputSectionsOf(F) :
              LET r == F.sections[k + 1].relsec_idx IN
              r # -1 =>
                /\ r \in 0..(Len(F.elf_sections) - 1)
                /\ ShdrAt(F, r).sh_type \in {"SHT_REL", "SHT_RELA", "SHT_CREL"}
                /\ ShdrAt(F, r).sh_info = k
         /\ \A k, l \in InputSectionsOf(F) :
              (k # l /\ F.sections[k + 1].relsec_idx # -1) =>
                F.sections[k + 1].relsec_idx # F.sections[l + 1].relsec_idx

\* the sections of F named .note.GNU-stack that have SHF_EXECINSTR
ExecStackNotes(F) ==
  { k \in 0..(Len(F.elf_sections) - 1) :
      /\ ShdrAt(F, k).name = S_note_GNU_stack
      /\ "SHF_EXECINSTR" \in ShdrAt(F, k).sh_flags }

\* those of them that the first loop takes as a stack note: the link is
\* not relocatable and the section is not passed over as excluded (all of
\* them are SHT_PROGBITS)
ReachedStackNotes(F) ==
  { k \in ExecStackNotes(F) :
      ~isecs.arg.relocatable /\ "SHF_EXCLUDE" \notin ShdrAt(F, k).sh_flags }

OptedIn == isecs.arg.z_execstack \/ isecs.arg.z_execstack_if_needed

SectionsDone == \A f \in SectionFiles : isecs.file[f].pc = "done"

\* the warnings issued for f
WarningsOf(f) == { n \in 1..Len(isecs.warnings) : isecs.warnings[n] = f }

\* C36 as stated: over the whole link the warning is issued once if some
\* object has an executable .note.GNU-stack and the user has not opted in,
\* and not at all otherwise; every such object has needs_executable_stack
C36_WarnsOncePerLink ==
  SectionsDone =>
    LET carriers == { f \in SectionFiles : ExecStackNotes(isecs.file[f]) # {} } IN
    /\ Len(isecs.warnings) = (IF carriers # {} /\ ~OptedIn THEN 1 ELSE 0)
    /\ \A f \in carriers : isecs.file[f].needs_executable_stack

\* C36 amended: for every object the warning is issued once for each
\* executable .note.GNU-stack section that the object's first loop takes as
\* a stack note, and not at all if the user has opted in; the object has
\* needs_executable_stack exactly if it has such a section
C36_WarnsOncePerNote ==
  \A f \in SectionFiles :
    LET F == isecs.file[f] IN
    F.pc \in {"attach", "done"} =>
      /\ Cardinality(WarningsOf(f)) =
           (IF OptedIn THEN 0 ELSE Cardinality(ReachedStackNotes(F)))
      /\ F.needs_executable_stack <=> ReachedStackNotes(F) # {}

\* C36 witness: both objects have an executable stack note, and the link
\* has ended with two warnings
C36_Witness ==
  /\ SectionsDone
  /\ \A f \in SectionFiles : ReachedStackNotes(isecs.file[f]) # {}
  /\ Len(isecs.warnings) = 2

\* the SHT_GROUP sections of F that the first loop does not pass over
GroupsOf(F) ==
  { k \in 0..(Len(F.elf_sections) - 1) :
      /\ ShdrAt(F, k).sh_type = "SHT_GROUP"
      /\ ~IsExcluded(isecs.arg, ShdrAt(F, k)) }

HasSignature(shdr) == shdr.sh_info < Len(SectionSyms)

IsWm4(F, shdr) == StartsWith(GroupSignature(F, shdr), S_wm4)

\* the groups the claim has rejected: empty, or a flag word other than
\* GRP_COMDAT, the signature not beginning with wm4.
RejectedAsStated(F, shdr) ==
  /\ ~IsWm4(F, shdr)
  /\ (shdr.entries = <<>> \/ shdr.entries[1] # GRP_COMDAT)

DroppedAsStated(F, shdr) == IsWm4(F, shdr)

\* the groups the code rejects: a flag word of 0 is not among them
RejectedByFlag(F, shdr) ==
  /\ ~IsWm4(F, shdr)
  /\ (shdr.entries = <<>> \/ shdr.entries[1] \notin {0, GRP_COMDAT})

DroppedSilently(F, shdr) ==
  IsWm4(F, shdr) \/ (shdr.entries # <<>> /\ shdr.entries[1] = 0)

\* the entries of the file's list for section k
Registered(F, k) ==
  { n \in 1..Len(F.comdat_groups) : F.comdat_groups[n].i = k }

\* the number of sections the first loop of F has passed
SectionsRead(F) == IF F.pc \in {"read", "fatal"} THEN F.i ELSE Len(F.elf_sections)

\* F has handled its groups as Rejected and Dropped say: the loop has
\* stopped with a fatal error at a rejected group and only there, a
\* dropped group is not in the list, and every other group is in the list
\* once, with its members, paired with the ComdatGroup of its signature
GroupsHandled(F, Rejected(_, _), Dropped(_, _)) ==
  /\ \A k \in GroupsOf(F) :
       LET shdr == ShdrAt(F, k) IN
       (k < SectionsRead(F) /\ HasSignature(shdr)) =>
         /\ ~Rejected(F, shdr)
         /\ IF Dropped(F, shdr) THEN Registered(F, k) = {}
            ELSE \E n \in 1..Len(F.comdat_groups) :
                   /\ Registered(F, k) = {n}
                   /\ F.comdat_groups[n].members = Tail(shdr.entries)
                   /\ F.comdat_groups[n].group = GroupSignature(F, shdr)
                   /\ GroupSignature(F, shdr) \in isecs.comdat_groups
  /\ (F.pc = "fatal" /\ F.i \in GroupsOf(F) /\ HasSignature(ShdrAt(F, F.i))) =>
       Rejected(F, ShdrAt(F, F.i))
  /\ \A n \in 1..Len(F.comdat_groups) : F.comdat_groups[n].i \in GroupsOf(F)

\* C37 as stated: every group that is empty or whose flag word is not
\* GRP_COMDAT is a fatal error, but for a wm4. group, which is dropped; an
\* accepted group is registered once
C37_GroupsRejectedUnlessComdat ==
  \A f \in SectionFiles :
    GroupsHandled(isecs.file[f], RejectedAsStated, DroppedAsStated)

\* C37 amended: a group whose sh_info is no symbol index is a fatal error;
\* a group whose signature begins with wm4. or whose flag word is 0 is
\* dropped silently; any other group that is empty or whose flag word is
\* not GRP_COMDAT is a fatal error; an accepted group is registered once in
\* the file's list with its section index and its members, paired with the
\* process-global ComdatGroup of its signature
C37_GroupsRejectedUnlessComdatOrZero ==
  \A f \in SectionFiles :
    LET F == isecs.file[f] IN
    /\ GroupsHandled(F, RejectedByFlag, DroppedSilently)
    /\ \A k \in GroupsOf(F) :
         ~HasSignature(ShdrAt(F, k)) => SectionsRead(F) <= k

\* C37 witness: a has ended with two registered groups of one signature,
\* after it has dropped a group whose flag word is 0
C37_Witness ==
  LET F == isecs.file["a"] IN
  /\ F.pc = "done"
  /\ Len(F.comdat_groups) = 2
  /\ F.comdat_groups[1].group = F.comdat_groups[2].group
  /\ \E k \in GroupsOf(F) : ShdrAt(F, k).entries = <<0, 1>>

----------------------------------------------------------------------------
(* ObjectFile::parse_ehframe *)

\* line 579: the offset of an FDE's first relocation from the record's start
FdeRelocOffset == 8

\* The records of the model: the size field of every record but the
\* terminator is 12, so that a record takes 16 bytes; a CIE's relocation is
\* at offset 9 of its record and a misplaced FDE relocation at offset 12.
EhLayout == [size |-> 12, cie_rel |-> 9, late_rel |-> 12]
RecordBytes == EhLayout.size + 4

\* The sections of the object file: 1 and 3 are alive, 2 is not (a member
\* of a losing COMDAT group).  The symbols 1..4 are defined in the sections
\* 3, 2, 1 and in no section (st_shndx 0); symbol 0 is the null symbol.
EhSectionAlive == <<TRUE, FALSE, TRUE>>
EhSymShndx == <<3, 2, 1, 0>>

\* get_section(elf_syms[r_sym]): the index of the input section, 0 for none
get_section(r_sym) == IF r_sym = 0 THEN 0 ELSE EhSymShndx[r_sym]

\* InputSection::get_priority of the sections of one file: the file's
\* priority is the same for all of them, so the section index decides
get_priority(shndx) == shndx

\* a four-byte little-endian field holding the signed number v, and the
\* signed number that I32 reads from such a field
EncodeI32(v) ==
  <<v % 256, (v \div 256) % 256, (v \div 65536) % 256, (v \div 16777216) % 256>>
ReadI32(b) ==
  b[1] + 256 * b[2] + 65536 * b[3]
  + 16777216 * (IF b[4] >= 128 THEN b[4] - 256 ELSE b[4])
\* U32 of the field is 0
IsZeroU32(b) == b = <<0, 0, 0, 0>>

EhRel(r_offset, r_sym) == [r_offset |-> r_offset, r_sym |-> r_sym]

\* the kinds of records a section of the model is made of: the terminator,
\* CIEs with and without a relocation, FDEs whose CIE pointer names the
\* first record, the record before or the record after, and FDEs with no
\* relocation, with a first relocation at offset 8 for the symbols 0, 1, 2
\* and 4, with a first relocation at offset 12, and with two relocations
EhKind(kind, target, rels) == [kind |-> kind, target |-> target, rels |-> rels]
Terminator == EhKind("end", "first", <<>>)
CieKinds ==
  { EhKind("cie", "first", <<>>),
    EhKind("cie", "first", <<EhRel(EhLayout.cie_rel, 1)>>) }
FdeRelKinds ==
  { <<>>, <<EhRel(FdeRelocOffset, 0)>>, <<EhRel(FdeRelocOffset, 2)>>,
    <<EhRel(FdeRelocOffset, 4)>>,
    <<EhRel(EhLayout.late_rel, 1)>>,
    <<EhRel(FdeRelocOffset, 3), EhRel(EhLayout.late_rel, 2)>> }
FdeKinds ==
  { EhKind("fde", t, <<EhRel(FdeRelocOffset, 1)>>) : t \in {"first", "prev", "next"} }
  \cup { EhKind("fde", "first", r) : r \in FdeRelKinds }
EhKinds == CieKinds \cup FdeKinds \cup {Terminator}

\* the offset of record j and the offset its CIE pointer names
RecordOffset(j) == RecordBytes * (j - 1)
TargetOffset(j, target) ==
  CASE target = "first" -> 0
    [] target = "prev" -> RecordOffset(j) - RecordBytes
    [] OTHER -> RecordOffset(j) + RecordBytes

\* the bytes of record j: its size field and its id field, which for an
\* FDE holds the distance from the field back to the CIE
EhRecord(j, k) ==
  [size |-> IF k.kind = "end" THEN 0 ELSE EhLayout.size,
   id |-> IF k.kind = "fde"
          THEN EncodeI32(RecordOffset(j) + 4 - TargetOffset(j, k.target))
          ELSE EncodeI32(0)]

RECURSIVE EhRelsFrom(_, _)
\* the relocations of the records from j on, in the order of the records
EhRelsFrom(kinds, j) ==
  IF j > Len(kinds) THEN <<>>
  ELSE [i \in 1..Len(kinds[j].rels) |->
          EhRel(RecordOffset(j) + kinds[j].rels[i].r_offset, kinds[j].rels[i].r_sym)]
       \o EhRelsFrom(kinds, j + 1)

\* an .eh_frame section: its contents and its relocations
EhSection(kinds) ==
  [contents |-> [j \in 1..Len(kinds) |-> EhRecord(j, kinds[j])],
   rels |-> EhRelsFrom(kinds, 1)]

\* the kinds of the first record of a section: a CIE, or an FDE whose
\* pointer names the record itself or the record after it
FirstKinds ==
  CieKinds \cup { EhKind("fde", t, <<EhRel(FdeRelocOffset, 1)>>) : t \in {"first", "next"} }

RECURSIVE EhTables(_)
\* the sequences of 1..n kinds
EhTables(n) ==
  IF n = 1 THEN { <<k>> : k \in FirstKinds }
  ELSE LET shorter == EhTables(n - 1) IN
       shorter \cup { Append(t, k) : t \in shorter, k \in EhKinds }

\* the second .eh_frame section of the file, if there is one: a CIE, an
\* FDE of section 3 and an FDE of section 2; or an FDE alone, its pointer
\* naming offset 0 where only the first .eh_frame section has a CIE
SecondSections ==
  { <<>>,
    <<EhSection(<<EhKind("cie", "first", <<>>),
                  EhKind("fde", "first", <<EhRel(FdeRelocOffset, 1)>>),
                  EhKind("fde", "first", <<EhRel(FdeRelocOffset, 2)>>)>>)>>,
    <<EhSection(<<EhKind("fde", "first", <<EhRel(FdeRelocOffset, 1)>>)>>)>> }

NewFdeRange == [fde_begin |-> -1, fde_end |-> -1]

InitEhframe ==
  /\ ResolveIdle /\ InternIdle /\ RankIdle /\ VisIdle
  /\ EarlyIdle /\ SecIdle /\ OutIdle
  /\ \E t \in EhTables(MaxRecords), second \in SecondSections :
       ehframe = [pc |-> "read", eh_frame_sections |-> <<EhSection(t)>> \o second,
                  eh_alive |-> [k \in 1..(1 + Len(second)) |-> TRUE],
                  k |-> 1, pos |-> 1, rel_idx |-> 0,
                  cies |-> <<>>, fdes |-> <<>>, cies_begin |-> 0, fdes_begin |-> 0,
                  sections |-> [s \in 1..Len(EhSectionAlive) |-> NewFdeRange],
                  assert_failed |-> FALSE]

EhVarsUnchanged ==
  UNCHANGED <<resolveVars, internVars, rk, mv, objfile, sofile, pieces, crel,
              mapped, isecs, symout>>

\* lines 563-564: the index after the relocations below end_offset
RECURSIVE SkipRels(_, _, _)
SkipRels(rels, rel_idx, end_offset) ==
  IF rel_idx < Len(rels) /\ rels[rel_idx + 1].r_offset < end_offset
  THEN SkipRels(rels, rel_idx + 1, end_offset)
  ELSE rel_idx

\* mutant: an FDE is kept whatever the symbol of its first relocation
IsDeadFde_NoSymbolTest(rels, rel_begin, rel_idx) == rel_begin = rel_idx

\* line 572: the FDE has no valid relocation
IsDeadFde(rels, rel_begin, rel_idx) ==
  rel_begin = rel_idx \/ rels[rel_begin + 1].r_sym = 0

\* line 579: the first relocation is not at offset 8 of the record
IsMisplaced(rels, rel_begin, begin_offset) ==
  rels[rel_begin + 1].r_offset - begin_offset # FdeRelocOffset

\* lines 552-584, one iteration: a record of the section is read; the isec
\* of an FdeRecord is the .eh_frame section it was read from, which the
\* code has in its CIE only
ReadRecord ==
  LET isec == ehframe.eh_frame_sections[ehframe.k]
      rels == isec.rels
      rec == isec.contents[ehframe.pos]
      begin_offset == RecordOffset(ehframe.pos)
      end_offset == begin_offset + rec.size + 4
      rel_begin == ehframe.rel_idx
      rel_idx == SkipRels(rels, rel_begin, end_offset)
      asserted == rel_idx = Len(rels) \/ begin_offset <= rels[rel_begin + 1].r_offset
      next == [ehframe EXCEPT !.pos = @ + 1, !.rel_idx = rel_idx,
                              !.assert_failed = @ \/ ~asserted] IN
  /\ ehframe.pc = "read"
  /\ ehframe.pos <= Len(isec.contents)
  /\ rec.size # 0
  /\ ehframe' =
       IF IsZeroU32(rec.id)
       THEN [next EXCEPT !.cies = Append(@, [input_offset |-> begin_offset,
                                             rel_idx |-> rel_begin,
                                             isec |-> ehframe.k])]
       ELSE IF IsDeadFde(rels, rel_begin, rel_idx) THEN next
       ELSE IF IsMisplaced(rels, rel_begin, begin_offset)
       THEN [next EXCEPT !.pc = "fatal"]
       ELSE [next EXCEPT !.fdes = Append(@, [input_offset |-> begin_offset,
                                             rel_idx |-> rel_begin,
                                             cie_idx |-> -1, is_alive |-> TRUE,
                                             isec |-> ehframe.k])]
  /\ EhVarsUnchanged

\* lines 552-555: the data is empty or the record is the terminator
EndRecords ==
  LET isec == ehframe.eh_frame_sections[ehframe.k] IN
  /\ ehframe.pc = "read"
  /\ IF ehframe.pos > Len(isec.contents) THEN TRUE
     ELSE isec.contents[ehframe.pos].size = 0
  /\ ehframe' = [ehframe EXCEPT !.pc = "associate"]
  /\ EhVarsUnchanged

\* mutant: the CIE is looked for among the CIEs of all sections
find_cie_AllSections(cies, cies_begin, offset) ==
  LET found == { i \in 0..(Len(cies) - 1) : cies[i + 1].input_offset = offset } IN
  IF found = {} THEN -1 ELSE CHOOSE i \in found : \A j \in found : i <= j

\* lines 587-592: the index of the first CIE of this section at the offset,
\* -1 for the fatal error
find_cie(cies, cies_begin, offset) ==
  LET found == { i \in cies_begin..(Len(cies) - 1) : cies[i + 1].input_offset = offset } IN
  IF found = {} THEN -1 ELSE CHOOSE i \in found : \A j \in found : i <= j

\* line 595: the CIE pointer of the FDE, read as a signed number
CieOffset(isec, fde) ==
  ReadI32(isec.contents[(fde.input_offset \div RecordBytes) + 1].id)

\* lines 594-599: the FDEs of the section get their CIEs, and the section
\* is no longer alive
AssociateCies ==
  LET isec == ehframe.eh_frame_sections[ehframe.k]
      cie_of(i) == find_cie(ehframe.cies, ehframe.cies_begin,
                         ehframe.fdes[i].input_offset + 4 - CieOffset(isec, ehframe.fdes[i]))
      mine == (ehframe.fdes_begin + 1)..Len(ehframe.fdes)
      last == ehframe.k = Len(ehframe.eh_frame_sections) IN
  /\ ehframe.pc = "associate"
  /\ ehframe' =
       IF \E i \in mine : cie_of(i) = -1
       THEN [ehframe EXCEPT !.pc = "fatal"]
       ELSE [ehframe EXCEPT
               !.fdes = [i \in 1..Len(ehframe.fdes) |->
                           IF i \in mine THEN [ehframe.fdes[i] EXCEPT !.cie_idx = cie_of(i)]
                           ELSE ehframe.fdes[i]],
               !.eh_alive[ehframe.k] = FALSE,
               !.k = IF last THEN @ ELSE @ + 1,
               !.pos = 1, !.rel_idx = 0,
               !.cies_begin = Len(ehframe.cies),
               !.fdes_begin = Len(ehframe.fdes),
               !.pc = IF last THEN "sort" ELSE "read"]
  /\ EhVarsUnchanged

\* lines 602-604: the section of the symbol of the FDE's first relocation;
\* the relocations are those of its CIE's section
get_isec(E, fde) ==
  get_section(E.eh_frame_sections[E.cies[fde.cie_idx + 1].isec].rels[fde.rel_idx + 1].r_sym)

RECURSIVE InsertByKey(_, _, _)
\* x put into the sorted sequence s after the elements whose key is not greater
InsertByKey(s, x, key) ==
  IF s = <<>> THEN <<x>>
  ELSE IF key[s[Len(s)]] <= key[x] THEN Append(s, x)
  ELSE Append(InsertByKey(SubSeq(s, 1, Len(s) - 1), x, key), s[Len(s)])

RECURSIVE StableSortFrom(_, _, _, _)
StableSortFrom(s, i, acc, key) ==
  IF i > Len(s) THEN acc
  ELSE StableSortFrom(s, i + 1, InsertByKey(acc, s[i], key), key)

\* mutant: the FDEs stay in the order of the file
stable_sort_Unsorted(s, key) == s

\* ranges::stable_sort with a projection, key being the projection of
\* each element
stable_sort(s, key) == StableSortFrom(s, 1, <<>>, key)

\* lines 608-610: the FDEs are sorted; get_priority is called through a
\* null pointer for an FDE whose symbol has no section
SortFdes ==
  LET key == [fde \in { ehframe.fdes[i] : i \in 1..Len(ehframe.fdes) } |->
                get_priority(get_isec(ehframe, fde))] IN
  /\ ehframe.pc = "sort"
  /\ ehframe' =
       IF \E i \in 1..Len(ehframe.fdes) : get_isec(ehframe, ehframe.fdes[i]) = 0
       THEN [ehframe EXCEPT !.pc = "crashed"]
       ELSE [ehframe EXCEPT !.fdes = stable_sort(@, key), !.pc = "group"]
  /\ EhVarsUnchanged

RECURSIVE RunEnd(_, _, _)
\* lines 619-620: the index after the FDEs of the section from i on
RunEnd(E, isec, i) ==
  IF i < Len(E.fdes) /\ isec = get_isec(E, E.fdes[i + 1])
  THEN RunEnd(E, isec, i + 1) ELSE i

RECURSIVE GroupFrom(_, _)
\* lines 613-625: the loop from the FDE of index i on
GroupFrom(E, i) ==
  IF i >= Len(E.fdes) THEN E
  ELSE LET isec == get_isec(E, E.fdes[i + 1])
           F == [E EXCEPT !.assert_failed = @ \/ E.sections[isec].fde_begin # -1] IN
       IF EhSectionAlive[isec]
       THEN LET end == RunEnd(F, isec, i + 1) IN
            GroupFrom([F EXCEPT !.sections[isec] = [fde_begin |-> i, fde_end |-> end]], end)
       ELSE GroupFrom([F EXCEPT !.fdes[i + 1].is_alive = FALSE], i + 1)

\* lines 613-625: the FDEs are associated with their input sections; a
\* failed assertion ends a build that has assertions
GroupFdes ==
  /\ ehframe.pc = "group"
  /\ \E asserting \in BOOLEAN :
       LET E == GroupFrom(ehframe, 0) IN
       ehframe' = [E EXCEPT !.pc = IF asserting /\ E.assert_failed
                                   THEN "aborted" ELSE "done"]
  /\ EhVarsUnchanged

NextEhframe ==
  \/ ReadRecord
  \/ EndRecords
  \/ AssociateCies
  \/ SortFdes
  \/ GroupFdes

SpecEhframe == InitEhframe /\ [][NextEhframe]_vars

\* the FDEs of the file, by index from 0
FdeIndices == 0..(Len(ehframe.fdes) - 1)
FdeAt(i) == ehframe.fdes[i + 1]
EhDone == ehframe.pc = "done"

\* x was read before y: in an earlier .eh_frame section, or earlier in one
ReadBefore(x, y) ==
  x.isec < y.isec \/ (x.isec = y.isec /\ x.input_offset < y.input_offset)

\* the indices of the relocations of a section within [begin, end)
RelsWithin(isec, begin, end) ==
  { i \in 1..Len(isec.rels) :
      begin <= isec.rels[i].r_offset /\ isec.rels[i].r_offset < end }
MinOf(S) == CHOOSE i \in S : \A j \in S : i <= j

\* the relocations that lie in the record at begin_offset of the section
RelsOfRecord(isec, begin_offset) ==
  RelsWithin(isec, begin_offset, begin_offset + RecordBytes)

\* C33: once parse_ehframe has ended, the FDEs are in the order of their
\* sections' priorities, those of one section in the order they were read;
\* the range [fde_begin, fde_end) of every alive section holds exactly the
\* FDEs of the section; neither assertion has failed; the FDEs of a section
\* that is not alive are not alive
C33_FdesGrouped ==
  /\ ehframe.pc # "aborted"
  /\ EhDone =>
       /\ ~ehframe.assert_failed
       /\ \A i, j \in FdeIndices :
            i < j =>
              LET si == get_isec(ehframe, FdeAt(i))
                  sj == get_isec(ehframe, FdeAt(j)) IN
              /\ get_priority(si) <= get_priority(sj)
              /\ si = sj => ReadBefore(FdeAt(i), FdeAt(j))
       /\ \A s \in 1..Len(EhSectionAlive) :
            EhSectionAlive[s] =>
              { i \in FdeIndices :
                  ehframe.sections[s].fde_begin <= i /\ i < ehframe.sections[s].fde_end }
              = { i \in FdeIndices : get_isec(ehframe, FdeAt(i)) = s }
       /\ \A i \in FdeIndices :
            ~EhSectionAlive[get_isec(ehframe, FdeAt(i))] => ~FdeAt(i).is_alive

\* C33 witness: the sort has moved an FDE of section 1 before an FDE of
\* section 3 that was read first, section 3 has two FDEs, and an FDE of
\* the section that is not alive is marked
C33_Witness ==
  /\ EhDone
  /\ \E i, j \in FdeIndices :
       /\ i < j /\ ReadBefore(FdeAt(j), FdeAt(i))
       /\ get_isec(ehframe, FdeAt(i)) = 1 /\ get_isec(ehframe, FdeAt(j)) = 3
  /\ ehframe.sections[3].fde_end - ehframe.sections[3].fde_begin = 2
  /\ \E i \in FdeIndices : ~FdeAt(i).is_alive

\* the CIE of an FDE, once it has one
CieOf(fde) == ehframe.cies[fde.cie_idx + 1]
Associated == { i \in FdeIndices : FdeAt(i).cie_idx # -1 }

\* the CIE of every FDE is in the FDE's section, at the offset its pointer
\* names
CieAtPointer ==
  \A i \in Associated :
    LET fde == FdeAt(i) IN
    /\ CieOf(fde).isec = fde.isec
    /\ CieOf(fde).input_offset
         = fde.input_offset + 4
           - CieOffset(ehframe.eh_frame_sections[fde.isec], fde)

\* C34: the CIE of every FDE is a CIE of the FDE's .eh_frame section, at
\* the offset the FDE's pointer names, and not after the FDE
C34_CieNotAfterFde ==
  /\ CieAtPointer
  /\ \A i \in Associated : CieOf(FdeAt(i)).input_offset <= FdeAt(i).input_offset

\* the record read by a step of the first loop
ReadsFde ==
  /\ ehframe.pc = "read" /\ ehframe'.pos = ehframe.pos + 1
  /\ ~IsZeroU32(ehframe.eh_frame_sections[ehframe.k].contents[ehframe.pos].id)

\* what the step does with the FDE record it reads
C35_Step ==
  ReadsFde =>
    LET isec == ehframe.eh_frame_sections[ehframe.k]
        begin_offset == RecordOffset(ehframe.pos)
        within == RelsOfRecord(isec, begin_offset) IN
    IF within = {} \/ isec.rels[MinOf(within)].r_sym = 0
    THEN ehframe'.fdes = ehframe.fdes /\ ehframe'.pc = "read"
    ELSE IF isec.rels[MinOf(within)].r_offset # begin_offset + FdeRelocOffset
    THEN ehframe'.fdes = ehframe.fdes /\ ehframe'.pc = "fatal"
    ELSE /\ Len(ehframe'.fdes) = Len(ehframe.fdes) + 1
         /\ ehframe'.fdes[Len(ehframe'.fdes)].input_offset = begin_offset
         /\ ehframe'.pc = "read"

\* the section of every FDE that has its CIE is the section of the symbol
\* of the first relocation in the record
C35_Section ==
  \A i \in Associated :
    LET isec == ehframe.eh_frame_sections[FdeAt(i).isec]
        within == RelsOfRecord(isec, FdeAt(i).input_offset) IN
    /\ within # {}
    /\ isec.rels[MinOf(within)].r_offset = FdeAt(i).input_offset + FdeRelocOffset
    /\ isec.rels[MinOf(within)].r_sym # 0
    /\ get_isec(ehframe, FdeAt(i)) = get_section(isec.rels[MinOf(within)].r_sym)

\* C35: an FDE record with no relocation in its bytes, or whose first
\* relocation has symbol 0, is passed over; one whose first relocation has
\* a symbol but is not at offset 8 is a fatal error; any other becomes an
\* FdeRecord, whose section is the section of that relocation's symbol
C35_FdeKeptByFirstReloc == [][C35_Step]_vars /\ []C35_Section

\* C35 witness: of the two FDE records after a CIE, the one whose
\* relocation has symbol 0 was passed over and the other is the file's
\* only FDE
C35_Witness ==
  /\ EhDone /\ Len(ehframe.fdes) = 1
  /\ Len(ehframe.eh_frame_sections) = 1
  /\ Len(ehframe.cies) = 1
  /\ ehframe.eh_frame_sections[1].rels
       = <<EhRel(RecordBytes + FdeRelocOffset, 0),
           EhRel(2 * RecordBytes + FdeRelocOffset, 2)>>

----------------------------------------------------------------------------
(* Definitions in sections that were not kept or are not alive *)

\* the definitions of key k that ObjectFile::resolve_symbols passes over
\* for their section
DeadDefinitions(k) ==
  { e \in Definitions(k) :
      /\ ~file[e[1]].is_dso
      /\ ~is_abs(file[e[1]].elf_syms[e[2]])
      /\ ~is_common(file[e[1]].elf_syms[e[2]])
      /\ file[e[1]].sections[file[e[1]].elf_syms[e[2]].st_shndx] # "alive" }

\* C38: a definition in a section that was not kept or is not alive is
\* never the chosen one, and never makes its file the symbol's file; once
\* a resolution pass has ended the symbol is defined by one of the other
\* definitions, if resolve_symbols takes any
C38_DeadDefinitionNeverInstalled ==
  \A k \in DOMAIN symtab :
    /\ \A e \in DeadDefinitions(k) :
         /\ <<symtab[k].file, symtab[k].sym_idx>> # e
         /\ symtab[k].file # e[1]
    /\ (PassDone /\ LiveDefinitions(k) # {}) =>
         <<symtab[k].file, symtab[k].sym_idx>> \in LiveDefinitions(k)

\* C38 witness: a pass has ended in which a definition in a dead section
\* had a rank below that of the definition that was chosen
C38_Witness ==
  /\ PassDone
  /\ \E k \in DOMAIN symtab :
       /\ symtab[k].file # Null
       /\ \E e \in DeadDefinitions(k) :
            SpecRankOf(e[1], e[2]) < SpecRankOf(symtab[k].file, symtab[k].sym_idx)

----------------------------------------------------------------------------
(* compute_symtab_size and populate_symtab of ObjectFile and SharedFile *)

S_hid == <<"h", "i", "d">>
S_L1 == <<".", "L", "1">>

\* ctx.arg: the options the two functions read
OutArg(discard_all, strip_all, retain_symbols_file, discard_locals) ==
  [discard_all |-> discard_all, strip_all |-> strip_all,
   retain_symbols_file |-> retain_symbols_file, discard_locals |-> discard_locals]
OutArgs ==
  { OutArg(FALSE, FALSE, FALSE, FALSE), OutArg(TRUE, FALSE, FALSE, FALSE),
    OutArg(FALSE, TRUE, FALSE, FALSE), OutArg(FALSE, FALSE, TRUE, FALSE),
    OutArg(FALSE, FALSE, FALSE, TRUE) }

\* A symbol as the two functions see it: its name and type, whether its
\* section is mergeable, whether its fragment or section is alive, whether
\* sym.file is this file, what Symbol::is_local(ctx) returns, and the flags
\* write_to_symtab, is_imported and is_exported
OutSymbol(name, type, merge, alive, owner, is_local, write, imported, exported) ==
  [name |-> name, type |-> type, merge |-> merge, alive |-> alive,
   owner |-> owner, is_local |-> is_local, write_to_symtab |-> write,
   is_imported |-> imported, is_exported |-> exported]

NullOutSymbol == OutSymbol(<<>>, STT_NOTYPE, FALSE, TRUE, TRUE, TRUE, FALSE, FALSE, FALSE)

\* the local symbols of the model: f alive and not, a section symbol, .L1
\* in a section that is mergeable and in one that is not
LocalOutSymbols ==
  { OutSymbol(S_f, STT_NOTYPE, FALSE, alive, TRUE, TRUE, FALSE, FALSE, FALSE) :
      alive \in BOOLEAN }
  \cup { OutSymbol(<<>>, STT_SECTION, FALSE, TRUE, TRUE, TRUE, FALSE, FALSE, FALSE) }
  \cup { OutSymbol(S_L1, STT_NOTYPE, merge, TRUE, TRUE, TRUE, FALSE, FALSE, FALSE) :
           merge \in BOOLEAN }

\* the global symbols of an object: g, or hid if it is demoted to a local
\* symbol; its section may have been discarded after the resolution; it is
\* on the list of --retain-symbols-file if write_to_symtab is set
GlobalOutSymbols(arg) ==
  { OutSymbol(IF is_local THEN S_hid ELSE S_g, STT_NOTYPE, FALSE, alive, owner,
              is_local, write, FALSE, FALSE) :
      alive \in BOOLEAN, owner \in BOOLEAN, is_local \in BOOLEAN,
      write \in (IF arg.retain_symbols_file THEN BOOLEAN ELSE {FALSE}) }

\* the symbols of a shared object: imported, exported or neither
DsoOutSymbols(arg) ==
  { OutSymbol(IF use[2] THEN S_hid ELSE S_g, STT_NOTYPE, FALSE, TRUE, owner,
              FALSE, write, use[1], use[2]) :
      owner \in BOOLEAN, use \in {<<FALSE, FALSE>>, <<TRUE, FALSE>>, <<FALSE, TRUE>>},
      write \in (IF arg.retain_symbols_file THEN BOOLEAN ELSE {FALSE}) }

RECURSIVE OutTables(_, _)
\* the sequences of exactly n symbols of a set
OutTables(S, n) ==
  IF n = 0 THEN {<<>>}
  ELSE { Append(t, x) : t \in OutTables(S, n - 1), x \in S }

\* the files of the model with up to n symbols: an object with its null
\* symbol, local symbols and global symbols, or a shared object with its
\* symbols
OutFiles(arg, n) ==
  UNION { UNION { { [is_dso |-> FALSE, first_global |-> 1 + nl,
                     symbols |-> <<NullOutSymbol>> \o l \o g] :
                      l \in OutTables(LocalOutSymbols, nl),
                      g \in OutTables(GlobalOutSymbols(arg), ng) } :
                  ng \in 0..(n - nl) } : nl \in 0..n }
  \cup UNION { { [is_dso |-> TRUE, first_global |-> 0, symbols |-> g] :
                  g \in OutTables(DsoOutSymbols(arg), ng) } : ng \in 0..n }

InitSymout ==
  /\ ResolveIdle /\ InternIdle /\ RankIdle /\ VisIdle
  /\ EarlyIdle /\ SecIdle /\ EhIdle
  /\ \E arg \in OutArgs :
       \E f \in OutFiles(arg, MaxOutSyms) :
         symout = [pc |-> "size", arg |-> arg, is_dso |-> f.is_dso,
                   first_global |-> f.first_global, symbols |-> f.symbols,
                   output_sym_indices |-> <<>>,
                   num_local_symtab |-> 0, num_global_symtab |-> 0,
                   strtab_size |-> 0, strtab_off |-> 0, written |-> <<>>]

OutVarsUnchanged ==
  UNCHANGED <<resolveVars, internVars, rk, mv, objfile, sofile, pieces, crel,
              mapped, isecs, ehframe>>

\* symbols[i] and elf_syms.size()
OutSym(F, i) == F.symbols[i + 1]
OutSize(F) == Len(F.symbols)

\* lines 1132-1153
should_write_to_local_symtab(arg, sym) ==
  IF sym.type = STT_SECTION THEN FALSE
  ELSE IF Len(sym.name) >= 2 /\ SubSeq(sym.name, 1, 2) = <<".", "L">>
       THEN ~arg.discard_locals /\ ~sym.merge
       ELSE TRUE

\* the symbol gets the next slot of its kind and its name is counted
Sized(F, i, local) ==
  [F EXCEPT !.strtab_size = @ + Len(OutSym(F, i).name) + 1,
            !.output_sym_indices[i + 1] =
               IF local THEN F.num_local_symtab ELSE F.num_global_symtab,
            !.num_local_symtab = IF local THEN @ + 1 ELSE @,
            !.num_global_symtab = IF local THEN @ ELSE @ + 1,
            !.symbols[i + 1].write_to_symtab = TRUE]

RECURSIVE ObjSizeLocals(_, _)
\* lines 1169-1177: the loop over the local symbols from i on
ObjSizeLocals(F, i) ==
  IF i >= F.first_global THEN F
  ELSE IF OutSym(F, i).alive /\ should_write_to_local_symtab(F.arg, OutSym(F, i))
       THEN ObjSizeLocals(Sized(F, i, TRUE), i + 1)
       ELSE ObjSizeLocals(F, i + 1)

\* lines 1184-1185: the global symbol is counted
ObjCounts(arg, sym) ==
  /\ sym.owner /\ sym.alive
  /\ ~arg.retain_symbols_file \/ sym.write_to_symtab

RECURSIVE ObjSizeGlobals(_, _)
\* lines 1181-1195: the loop over the global symbols from i on
ObjSizeGlobals(F, i) ==
  IF i >= OutSize(F) THEN F
  ELSE IF ObjCounts(F.arg, OutSym(F, i))
       THEN ObjSizeGlobals(Sized(F, i, OutSym(F, i).is_local), i + 1)
       ELSE ObjSizeGlobals(F, i + 1)

\* line 1157 and 1528: output_sym_indices.resize(elf_syms.size(), -1)
Resized(F) == [F EXCEPT !.output_sym_indices = [i \in 1..OutSize(F) |-> -1]]

\* ObjectFile::compute_symtab_size
ObjComputeSymtabSize ==
  LET F == Resized(symout)
      G == IF ~F.arg.discard_all /\ ~F.arg.strip_all /\ ~F.arg.retain_symbols_file
           THEN ObjSizeLocals(F, 1) ELSE F IN
  /\ symout.pc = "size" /\ ~symout.is_dso
  /\ symout' = [ObjSizeGlobals(G, F.first_global) EXCEPT !.pc = "write"]
  /\ OutVarsUnchanged

\* write_sym: the entry at a slot of the local or the global part, and the
\* name with its NUL
Written(F, i, slot, local) ==
  [F EXCEPT !.written = Append(@, [i |-> i, slot |-> slot, local |-> local]),
            !.strtab_off = @ + Len(OutSym(F, i).name) + 1]

RECURSIVE ObjWriteLocals(_, _, _)
\* lines 1217-1219, from i on
ObjWriteLocals(F, i, local_idx) ==
  IF i >= F.first_global THEN [F |-> F, local_idx |-> local_idx]
  ELSE IF OutSym(F, i).write_to_symtab
       THEN ObjWriteLocals(Written(F, i, local_idx, TRUE), i + 1, local_idx + 1)
       ELSE ObjWriteLocals(F, i + 1, local_idx)

\* line 1223: the global symbol is written
ObjWrites(sym) == sym.owner /\ sym.write_to_symtab

RECURSIVE ObjWriteGlobals(_, _, _, _)
\* lines 1221-1225, from i on
ObjWriteGlobals(F, i, local_idx, global_idx) ==
  IF i >= OutSize(F) THEN F
  ELSE IF ObjWrites(OutSym(F, i))
       THEN IF OutSym(F, i).is_local
            THEN ObjWriteGlobals(Written(F, i, local_idx, TRUE), i + 1,
                                 local_idx + 1, global_idx)
            ELSE ObjWriteGlobals(Written(F, i, global_idx, FALSE), i + 1,
                                 local_idx, global_idx + 1)
       ELSE ObjWriteGlobals(F, i + 1, local_idx, global_idx)

\* ObjectFile::populate_symtab; the slots are counted from local_symtab_idx
\* and global_symtab_idx
ObjPopulateSymtab ==
  LET l == ObjWriteLocals(symout, 1, 0) IN
  /\ symout.pc = "write" /\ ~symout.is_dso
  /\ symout' = [ObjWriteGlobals(l.F, symout.first_global, l.local_idx, 0)
                  EXCEPT !.pc = "done"]
  /\ OutVarsUnchanged

\* lines 1534-1535: the symbol of the shared object is counted
DsoCounts(arg, sym) ==
  /\ sym.owner /\ (sym.is_imported \/ sym.is_exported)
  /\ ~arg.retain_symbols_file \/ sym.write_to_symtab

RECURSIVE DsoSizeGlobals(_, _)
\* lines 1531-1540, from i on
DsoSizeGlobals(F, i) ==
  IF i >= OutSize(F) THEN F
  ELSE IF DsoCounts(F.arg, OutSym(F, i))
       THEN DsoSizeGlobals(Sized(F, i, FALSE), i + 1)
       ELSE DsoSizeGlobals(F, i + 1)

\* SharedFile::compute_symtab_size
DsoComputeSymtabSize ==
  /\ symout.pc = "size" /\ symout.is_dso
  /\ symout' = [DsoSizeGlobals(Resized(symout), symout.first_global)
                  EXCEPT !.pc = "write"]
  /\ OutVarsUnchanged

RECURSIVE DsoWriteGlobals(_, _, _)
\* lines 1551-1563, from the symbol of index n on, i entries written
DsoWriteGlobals(F, n, i) ==
  IF n >= OutSize(F) THEN F
  ELSE IF ~OutSym(F, n).owner \/ ~OutSym(F, n).write_to_symtab
       THEN DsoWriteGlobals(F, n + 1, i)
       ELSE DsoWriteGlobals(Written(F, n, i, FALSE), n + 1, i + 1)

\* SharedFile::populate_symtab
DsoPopulateSymtab ==
  /\ symout.pc = "write" /\ symout.is_dso
  /\ symout' = [DsoWriteGlobals(symout, symout.first_global, 0) EXCEPT !.pc = "done"]
  /\ OutVarsUnchanged

NextSymout ==
  \/ ObjComputeSymtabSize
  \/ ObjPopulateSymtab
  \/ DsoComputeSymtabSize
  \/ DsoPopulateSymtab

SpecSymout == InitSymout /\ [][NextSymout]_vars

\* the entries written, as <<input symbol, slot, part>>
WrittenEntries == { symout.written[n] : n \in 1..Len(symout.written) }

\* the slot compute_symtab_size gave the symbol, and the part it is in
SlotOf(i) == symout.output_sym_indices[i + 1]
InLocalPart(i) == ~symout.is_dso /\ (i < symout.first_global \/ OutSym(symout, i).is_local)

\* C39: populate_symtab writes num_local_symtab + num_global_symtab entries
\* and strtab_size bytes of names, each entry at the slot that
\* compute_symtab_size gave its symbol, in the local or the global part
C39_SizingMatchesEmission ==
  symout.pc = "done" =>
    /\ Len(symout.written) = symout.num_local_symtab + symout.num_global_symtab
    /\ symout.strtab_off = symout.strtab_size
    /\ \A w \in WrittenEntries :
         /\ SlotOf(w.i) = w.slot
         /\ w.local = InLocalPart(w.i)
    /\ \A i \in 0..(OutSize(symout) - 1) :
         SlotOf(i) # -1 => \E w \in WrittenEntries : w.i = i

\* without --retain-symbols-file, and with it for symbols that are counted
\* if they are on its list, the two passes agree
C39_AgreesWhenCounted ==
  (symout.pc = "done"
   /\ \A i \in symout.first_global..(OutSize(symout) - 1) :
        LET sym == OutSym(symout, i) IN
        (symout.arg.retain_symbols_file /\ sym.owner /\ sym.write_to_symtab)
          => SlotOf(i) # -1)
    => C39_SizingMatchesEmission

----------------------------------------------------------------------------
(* Termination of the tracing pass *)

\* a step of a mark_live_objects call that has been started
TraceStep == \E f \in DOMAIN file : MarkObject(f) \/ MarkShared(f)

\* The calls of mark_live_objects are tasks of a parallel loop whose feeder
\* adds tasks; the loop returns when no task is left, and while one is left
\* a worker runs it: a step of some started call is taken in the end.
SpecLive == Spec /\ WF_vars(TraceStep)

\* a call of feeder for g: the file was not reachable, is reachable
\* afterwards, and has not been passed to feeder before
FeedsOnce ==
  \A g \in DOMAIN file :
    fed'[g] # fed[g] => (fed[g] = 0 /\ fed'[g] = 1 /\ ~is_reachable[g] /\ is_reachable'[g])

\* C40: a tracing pass that has begun reaches a state in which no call of
\* mark_live_objects runs or is pending, and feeder is called at most once
\* for a file, which was not reachable before
C40_TracingTerminates ==
  /\ (phase = "trace") ~> TraceDone
  /\ [][FeedsOnce]_vars

\* C40 witness: the second tracing pass has ended, feeder having been called
\* for two files, once each
C40_Witness ==
  /\ TraceDone /\ round = 2
  /\ \E g, h \in DOMAIN file : g # h /\ fed[g] = 1 /\ fed[h] = 1

====
